---- MODULE Spec2Model ----
(***************************************************************************)
(* Model of the AudioHelper measurement engine (src/AudioAnalyzer.py):     *)
(* the message handlers of AudioAnalyzer, its analysis pass analyze() and  *)
(* the measurement state machine of AudioAnalyzer.run().                   *)
(*                                                                         *)
(* Conventions                                                             *)
(*   - Time is counted in whole seconds.  A timer (timer_expiry) is kept   *)
(*     as the time that remains until time.monotonic() reaches it; the     *)
(*     code only ever compares time.monotonic() >= timer_expiry.  The      *)
(*     timestamp of a history entry is kept as its age.                    *)
(*   - An optional number is <<>> (None), NaN (<<0, 0>>) or <<v>>.         *)
(*   - A frequency is <<start, stop, n, d>>, standing for                  *)
(*     start * (stop/start) ** (n/d) in lowest terms; a plain value h is   *)
(*     <<h, h, 0, 1>>.                                                     *)
(*   - settle_dur is kept multiplied by 4 (C_SETTLE_FACTOR is 5/4).        *)
(*   - A power is an integer on a linear scale; a level in dB is an        *)
(*     integer.                                                            *)
(*   - A message is <<receiver, type, data>>; sent holds the messages the  *)
(*     last step emitted, in order.                                        *)
(*   - The frequencies and amplitudes of spectra and calibration curves    *)
(*     are kept as their logarithms to base 2, which are rationals         *)
(*     <<numerator, denominator>>: a division of amplitudes is a           *)
(*     subtraction, the log-domain average an arithmetic mean.             *)
(*   - The message handlers of the analyzer (analysis passes included) are *)
(*     delivered one after another by one thread; run() is another thread. *)
(***************************************************************************)
EXTENDS Integers, Sequences, FiniteSets, TLC

VARIABLES
    sweep_on, delay_meas_on, noise_meas_on,   \* request flags (set by messages)
    state,                                    \* state of the run() state machine
    start_freq, stop_freq, sweep_freq,
    settle_dur, hist_dur, hist_list,
    gain_db,           \* gain applied to every spectrum [dB]
    runNoiseMeas, measNoise_db, measNoiseCnt,
    measNoiseMin_db, measNoiseAvg_db, measNoiseMax_db,
    measDelaySpikeThresh_db,
    runDelayMeas, measDelaySpike_TS, measDelays, measDelaysCnt,
    measDelayMin, measDelayAvg, measDelayMax,
    runSweepMeas, sweep_points, sweepFreqs, sweepAmpls, sweepCnt,
    pc,                \* position of run(): "sleep" (before the flag snapshot) or "step"
    snap,              \* run()'s local copies sweep_on, delay_meas_on, noise_meas_on
    sweep_freq_cnt, timer_expiry, retry_cnt, genMode, genVol,   \* locals of run()
    sent,              \* messages emitted by the last step
    pulse_gen_TS,      \* reply to the last REQ_delay_meas_peak_ts
    elapsed,           \* seconds since timer_expiry was last set (saturating)
    stopped,           \* measure_stop handled and no measurement request since
    budget,            \* control messages the environment may still send
    apply_cal,         \* [kind: "False" | "True" | "None" | "list", curve]
    cal_freq_list, cal_ampl_list,
    live_ampl,         \* spectrum of the last plot_data "Live"
    avg_ampl,          \* spectrum of the last plot_data "Avg"
    ana_error,         \* the last analysis pass raised an exception
    msg_error,         \* a setter raised an exception in the message handler
    call,              \* arguments of the function under study
    result,            \* what the call returned (NoResult before it returns)
    g_buf_pool_list,   \* BufferManager: the slots of the pool (None: unused)
    g_sem,             \* permits of the semaphore of free slots
    g_mutex,           \* the thread that holds the mutex of the pool, or "free"
    req_sem,           \* permits of the semaphore of each sender's request
    ipc_queue,         \* buffer ids emitted and not yet delivered to msgHandler
    snd,               \* each sending thread in msgSend: position and locals
    rcv,               \* the receiving thread in msgHandler: position and locals
    gen,               \* the attributes of the generator (src/AudioGen.py)
    genrun             \* AudioGen.run: position in the loop and its local variables

flagVars  == <<sweep_on, delay_meas_on, noise_meas_on>>
cfgVars   == <<start_freq, stop_freq, hist_dur, sweep_points, gain_db>>
noiseVars == <<runNoiseMeas, measNoise_db, measNoiseCnt,
               measNoiseMin_db, measNoiseAvg_db, measNoiseMax_db,
               measDelaySpikeThresh_db>>
delayVars == <<measDelays, measDelaysCnt, measDelayMin, measDelayAvg, measDelayMax>>
spikeVars == <<runDelayMeas, measDelaySpike_TS>>
sweepVars == <<sweepFreqs, sweepAmpls, sweepCnt>>
localVars == <<sweep_freq_cnt, retry_cnt, genMode, genVol>>
calVars   == <<apply_cal, cal_freq_list, cal_ampl_list>>
fnVars    == <<msg_error, call, result>>
bufVars   == <<g_buf_pool_list, g_sem, g_mutex, req_sem, ipc_queue, snd, rcv>>
genVars   == <<gen, genrun>>
extVars   == <<bufVars, genVars>>
outVars   == <<live_ampl, avg_ampl, ana_error, fnVars, extVars>>
vars == <<flagVars, state, cfgVars, sweep_freq, settle_dur, hist_list, noiseVars,
          delayVars, spikeVars, runSweepMeas, sweepVars, pc, snap, localVars,
          timer_expiry, sent, pulse_gen_TS, elapsed, stopped, budget,
          calVars, outVars>>

----------------------------------------------------------------------------
(* Program constants                                                       *)

C_FREQ_MAX == 20000
C_FREQ_MIN == 50
C_HIST_DUR_MAX == 10
C_HIST_DUR_MIN == 0
C_DELAY_SPIKE_THRESH_ABOVE_NOISE_DB == 3
C_VOL_INC_PER_RETRY_DB == 3
C_MAX_TIMEOUT_RETRY == 5        \* "if retry_cnt <= 5" in DELAY_MEAS
C_START_SETTLE_S == 2           \* START_SETTLE wait
C_ARM_WAIT_S == 1               \* armed time before the pulse
C_PULSE_TIMEOUT_S == 4          \* DELAY_MEAS timeout
C_RETRY_WAIT_S == 3             \* wait after a failed evaluation
C_STABLE_CNT == 3               \* matching entries needed / used for statistics
INIT_HIST_DUR == 3
INIT_GAIN_DB == 60
C_CLIP_LOG2 == -40             \* log2 of the floor 1e-12 of np.clip, to the whole number
C_GAIN_MIN_DB == 0
C_GAIN_MAX_DB == 200
C_SWEEP_POINTS_MIN == 1
C_SWEEP_POINTS_MAX == 100

\* no function is being applied; a call that has not returned
NoCall == [fn |-> "none"]
NoResult == <<"pending">>
INIT_SPIKE_THRESH_DB == -15

----------------------------------------------------------------------------
(* Bounds of the model                                                     *)

\* The program measures 10 noise samples and 5 delays and sweeps over up to
\* 100 points; the model keeps the same code with shorter arrays.
NoisePoints == 2
DelayPoints == 2
SweepPoints == 2
MaxRetryCnt == 7       \* retry_cnt saturates here (the code's counter is unbounded)
MaxHist == 1           \* history entries kept by the state-machine specification
MaxToneDur == 2        \* tone durations 0..MaxToneDur of analysed buffers
MaxBudget == 2         \* control messages per behaviour
AnaMaxHist == 3        \* history entries kept by the analysis specification
StatMaxHist == 5       \* history entries kept by the statistics specification
StatHistDur == 4       \* its history window [s]

----------------------------------------------------------------------------
(* Values                                                                  *)

None == <<>>
NaN == <<0, 0>>
Num(x) == <<x>>
TBD == <<>>                       \* the "TBD" sentinel of genMode / genVol

Hz(h) == <<h, h, 0, 1>>
FreqZero == Hz(0)
FreqNeg == Hz(0 - 1)              \* analyze(..., -1, 0) of a mic_data message
FreqPos(f) == f[1] > 0

RECURSIVE Gcd(_, _)
Gcd(a, b) == IF b = 0 THEN a ELSE Gcd(b, a % b)

\* start * (stop / start) ** (n / d)
GeoFreq(start, stop, n, d) ==
    IF start = stop \/ n = 0 THEN Hz(start)
    ELSE IF n = d THEN Hz(stop)
    ELSE <<start, stop, n \div Gcd(n, d), d \div Gcd(n, d)>>

Min2(a, b) == IF a <= b THEN a ELSE b
Max2(a, b) == IF a >= b THEN a ELSE b

NanList(n) == [i \in 1..n |-> NaN]

\* np.min / np.max / np.average of a list: NaN as soon as one element is NaN
HasNaN(l) == \E i \in 1..Len(l) : l[i] = NaN
RECURSIVE SumTo(_, _)
SumTo(l, n) == IF n = 0 THEN 0 ELSE l[n][1] + SumTo(l, n - 1)
NpMin(l) == IF HasNaN(l) THEN NaN
            ELSE Num(CHOOSE v \in {l[i][1] : i \in 1..Len(l)} :
                         \A i \in 1..Len(l) : v <= l[i][1])
NpMax(l) == IF HasNaN(l) THEN NaN
            ELSE Num(CHOOSE v \in {l[i][1] : i \in 1..Len(l)} :
                         \A i \in 1..Len(l) : v >= l[i][1])
\* the average is kept as <<sum, count>>
NpAverage(l) == IF HasNaN(l) THEN NaN ELSE <<SumTo(l, Len(l)), Len(l)>>
\* np.sqrt of an average <<sum, count>>: kept as <<sum, count, 2>> (the root of
\* sum / count)
NpSqrt(a) == IF a = NaN THEN NaN ELSE <<a[1], a[2], 2>>

\* rationals <<numerator, denominator>>, denominator > 0, in lowest terms
Abs(x) == IF x < 0 THEN 0 - x ELSE x
Rat(n, d) ==
    LET g == Gcd(Abs(n), Abs(d))
    IN  IF d < 0 THEN <<(0 - n) \div g, (0 - d) \div g>> ELSE <<n \div g, d \div g>>
Whole(n) == <<n, 1>>
\* (the operands are bound to their values x and y: each is evaluated once)
RatAdd(a, b) ==
    CHOOSE r \in {Rat(x[1] * y[2] + y[1] * x[2], x[2] * y[2]) : x \in {a}, y \in {b}} : TRUE
RatSub(a, b) ==
    CHOOSE r \in {Rat(x[1] * y[2] - y[1] * x[2], x[2] * y[2]) : x \in {a}, y \in {b}} : TRUE
RatMul(a, b) ==
    CHOOSE r \in {Rat(x[1] * y[1], x[2] * y[2]) : x \in {a}, y \in {b}} : TRUE
RatDiv(a, b) ==
    CHOOSE r \in {Rat(x[1] * y[2], x[2] * y[1]) : x \in {a}, y \in {b}} : TRUE
RatLess(a, b) == a[1] * b[2] < b[1] * a[2]

Msg(to, type, data) == <<to, type, data>>
IsMsg(m, to, type) == m[1] = to /\ m[2] = type
Count(s, to, type) == Cardinality({i \in 1..Len(s) : IsMsg(s[i], to, type)})

----------------------------------------------------------------------------
(* Construction: AudioAnalyzer.__init__ and the locals of run()            *)

NoSnap == [sweep |-> FALSE, delay |-> FALSE, noise |-> FALSE]

InitAnalyzer ==
    /\ sweep_on = FALSE /\ delay_meas_on = FALSE /\ noise_meas_on = FALSE
    /\ state = "IDLE"
    /\ start_freq = C_FREQ_MIN /\ stop_freq = C_FREQ_MAX
    /\ sweep_freq = FreqZero
    /\ settle_dur = Num(4)                       \* 1.000 s
    /\ hist_dur = INIT_HIST_DUR
    /\ gain_db = INIT_GAIN_DB
    /\ hist_list = <<>>
    /\ runNoiseMeas = FALSE
    /\ measNoise_db = NanList(NoisePoints)
    /\ measNoiseCnt = 0
    /\ measNoiseMin_db = None /\ measNoiseAvg_db = None /\ measNoiseMax_db = None
    /\ measDelaySpikeThresh_db = INIT_SPIKE_THRESH_DB
    /\ runDelayMeas = FALSE
    /\ measDelaySpike_TS = None
    /\ measDelays = NanList(DelayPoints)
    /\ measDelaysCnt = 0
    /\ measDelayMin = None /\ measDelayAvg = None /\ measDelayMax = None
    /\ runSweepMeas = FALSE
    /\ sweep_points = SweepPoints
    /\ sweepFreqs = NanList(SweepPoints)
    /\ sweepAmpls = NanList(SweepPoints)
    /\ sweepCnt = 0
    /\ apply_cal = [kind |-> "False", curve |-> <<>>]
    /\ cal_freq_list = <<>>
    /\ cal_ampl_list = <<>>

\* BufferManager.py: the globals of the module, and the threads at rest
\* the number of slots of the pool (C_BUF_CNT, 10 in the source): the
\* code treats every slot alike, and the pool of the model is smaller
BufCnt == 3
Senders == {"Ana", "Mic"}
SndAtRest == [pc |-> "idle", msg_type |-> <<>>, msg_data |-> None, buf_id |-> None,
              ret |-> None]
RcvAtRest == [pc |-> "idle", buf_id |-> None, ack_data |-> None, req_sem |-> "None"]

InitBufMan ==
    /\ g_buf_pool_list = [i \in 1..BufCnt |-> None]
    /\ g_sem = BufCnt
    /\ g_mutex = "free"
    /\ req_sem = [w \in Senders |-> 0]
    /\ ipc_queue = <<>>
    /\ snd = [w \in Senders |-> SndAtRest]
    /\ rcv = RcvAtRest

\* AudioGen.__init__, and the locals of run() before its first iteration; the
\* volume is 0 (silent) or 1 (any amplitude above zero), the peak timestamp is
\* None or the one of the latest peak
C_VOL_MIN_DB == 0 - 60
InitGen ==
    /\ gen = [audio_on |-> FALSE, mode |-> "Single Tone", freq |-> 440, vol |-> 0,
              currVol |-> 0, delayMeasPeak_TS |-> None]
    /\ genrun = [pc |-> "top", mode |-> "Single Tone", end_vol |-> 0,
                 pulse_state |-> "IDLE"]

InitRun ==
    /\ pc = "sleep"
    /\ snap = NoSnap
    /\ sweep_freq_cnt = 0
    /\ timer_expiry = 0
    /\ retry_cnt = 0
    /\ genMode = "TBD"
    /\ genVol = TBD
    /\ pulse_gen_TS = None

\* the state after construction, about to apply the function of the call c
Constructed(c) ==
    /\ InitAnalyzer
    /\ InitRun
    /\ sent = <<>>
    /\ elapsed = 0
    /\ stopped = FALSE
    /\ budget = MaxBudget
    /\ live_ampl = <<>>
    /\ avg_ampl = <<>>
    /\ ana_error = FALSE
    /\ msg_error = FALSE
    /\ call = c
    /\ result = NoResult
    /\ InitBufMan
    /\ InitGen

Init == Constructed(NoCall)

----------------------------------------------------------------------------
(* Message handlers: AudioAnalyzer.msgHandler                              *)

\* what a handler that only touches the request flags leaves alone
HandlerFrame ==
    UNCHANGED <<state, cfgVars, sweep_freq, settle_dur, hist_list, noiseVars,
                delayVars, spikeVars, runSweepMeas, pc, snap, localVars,
                timer_expiry, pulse_gen_TS, elapsed, calVars, outVars>>

measure_sweep(measOn) ==
    /\ budget > 0 /\ budget' = budget - 1
    /\ sweep_on' = measOn
    /\ stopped' = (stopped /\ ~measOn)
    /\ sent' = <<>>
    /\ UNCHANGED <<delay_meas_on, noise_meas_on, sweepVars>>
    /\ HandlerFrame

measure_delay(measOn) ==
    /\ budget > 0 /\ budget' = budget - 1
    /\ delay_meas_on' = measOn
    /\ stopped' = (stopped /\ ~measOn)
    /\ sent' = <<>>
    /\ UNCHANGED <<sweep_on, noise_meas_on, sweepVars>>
    /\ HandlerFrame

measure_noise(measOn) ==
    /\ budget > 0 /\ budget' = budget - 1
    /\ noise_meas_on' = measOn
    /\ stopped' = (stopped /\ ~measOn)
    /\ sent' = <<>>
    /\ UNCHANGED <<sweep_on, delay_meas_on, sweepVars>>
    /\ HandlerFrame

measure_stop ==
    /\ budget > 0 /\ budget' = budget - 1
    /\ noise_meas_on' = FALSE
    /\ delay_meas_on' = FALSE
    /\ sweep_on' = FALSE
    /\ stopped' = TRUE
    /\ sent' = <<>>
    /\ UNCHANGED sweepVars
    /\ HandlerFrame

clear_sweep ==
    /\ budget > 0 /\ budget' = budget - 1
    /\ sweepFreqs' = NanList(sweep_points)
    /\ sweepAmpls' = NanList(sweep_points)
    /\ sweepCnt' = 0
    /\ sent' = <<>>
    /\ UNCHANGED <<flagVars, stopped>>
    /\ HandlerFrame

----------------------------------------------------------------------------
(* History: hist_clean, hist_add                                           *)

\* first index whose entry has not aged out (Len + 1 when all have)
RECURSIVE FirstFresh(_, _, _)
FirstFresh(h, dur, ind) ==
    IF ind > Len(h) THEN ind
    ELSE IF h[ind].age <= dur THEN ind     \* timestamp >= cur_time - hist_dur
    ELSE FirstFresh(h, dur, ind + 1)

\* (variant: an entry captured exactly hist_dur ago has aged out as well)
hist_cleanBoundaryOut(h, dur) == SubSeq(h, FirstFresh(h, dur - 1, 1), Len(h))

hist_clean(h, dur) == SubSeq(h, FirstFresh(h, dur, 1), Len(h))

\* (variant: the history is not cleaned before the entry is appended)
hist_addNoClean(h, dur, entry) == Append(h, entry)

hist_add(h, dur, entry) == Append(hist_clean(h, dur), entry)

----------------------------------------------------------------------------
(* Analysis pass: AudioAnalyzer.analyze                                    *)

\* x < settle_dur and x >= settle_dur as Python floats (both False for NaN)
LtSettle(x, sd) == sd # NaN /\ 4 * x < sd[1]
GeSettle(x, sd) == sd # NaN /\ 4 * x >= sd[1]

\* indices of the history entries that count for the current sweep frequency
RECURSIVE FreqFound(_, _, _, _)
FreqFound(h, curF, sd, i) ==
    IF i > Len(h) THEN <<>>
    ELSE IF h[i].foundSweepFreq # curF THEN FreqFound(h, curF, sd, i + 1)
    ELSE IF LtSettle(h[i].toneDuration, sd) THEN FreqFound(h, curF, sd, i + 1)
    ELSE <<i>> \o FreqFound(h, curF, sd, i + 1)

totalBufElapsed(h) ==
    IF Len(h) > 0 THEN (h[1].age - h[Len(h)].age) + h[Len(h)].bufDuration ELSE 0

sweepBufElapsed(h, ff) ==
    IF Len(ff) > 0
    THEN (h[ff[1]].age - h[ff[Len(ff)]].age) + h[ff[Len(ff)]].bufDuration
    ELSE 0

\* the slice [f:l] the min / max of power_in_band are taken over
StatSlice(ff) ==
    IF Len(ff) > C_STABLE_CNT THEN SubSeq(ff, Len(ff) - C_STABLE_CNT + 1, Len(ff))
    ELSE ff

\* the slice np.average(freqFoundPowerInBOI_list[f:l]) of avg_powerInBOI uses:
\* f and l are still 0 and cntFreqFound when it is recomputed for more than 3
AvgSlice(ff) == ff

BOIList(h, ix) == [j \in 1..Len(ix) |-> h[ix[j]].powerInBOI]

\* (max_powerInBOI_db - min_powerInBOI_db) > 3, with 10 ** 0.3 = 1.995...
SpreadExceeds(maxP, minP) == maxP * 1000 > minP * 1995

\* (variant: a point is only ever accepted by the time-out)
sweep_readyTimeoutOnly(h, ff, curF, foundSweepFreq, toneDuration, sd) ==
    /\ foundSweepFreq = curF
    /\ GeSettle(toneDuration, sd)
    /\ 5 * sweepBufElapsed(h, ff) >= 4 * totalBufElapsed(h)

sweep_ready(h, ff, curF, foundSweepFreq, toneDuration, sd) ==
    /\ foundSweepFreq = curF
    /\ GeSettle(toneDuration, sd)
    /\ \/ 5 * sweepBufElapsed(h, ff) >= 4 * totalBufElapsed(h)   \* sweep_timeout
       \/ /\ Len(ff) >= C_STABLE_CNT
          /\ ~SpreadExceeds(NpMax(BOIList(h, StatSlice(ff)))[1],
                            NpMin(BOIList(h, StatSlice(ff)))[1])

\* (variant: the tone the buffer is tagged with is not compared)
SweepArmedAnyTone(curF) == runSweepMeas /\ FreqPos(curF)

\* the sweep measurement is looked at by this pass
SweepArmed(curF) == runSweepMeas /\ curF = sweep_freq /\ FreqPos(curF)

\* a ready point has no slot: k < sweep_points, but sweepFreqs, allocated for
\* fewer points, has no element k, and self.sweepFreqs[k] raises IndexError
StoreRaises == sweepCnt < sweep_points /\ sweepCnt >= Len(sweepFreqs)

\* (variant: the overflow of the sweep arrays is not looked for)
CanStoreNoOverflowCheck == sweepCnt >= sweep_points \/ sweepFreqs[sweepCnt + 1] = NaN

\* a ready point is stored (k < sweep_points and the slot is free)
CanStore == sweepCnt < sweep_points /\ sweepFreqs[sweepCnt + 1] = NaN

\* the values of apply_cal: False, True, None, [freq_list, ampl_list]
CalOff == [kind |-> "False", curve |-> <<>>]
CalOn == [kind |-> "True", curve |-> <<>>]
CalRemove == [kind |-> "None", curve |-> <<>>]
CalList(c) == [kind |-> "list", curve |-> c]

\* "if apply_cal:" is taken for True and for a list (which holds 2 elements)
CalTruthy(a) == a.kind \in {"True", "list"}

\* the frequencies of the spectrum of a buffer (DC removed)
LiveFreqs == <<Whole(0), Whole(1), Whole(2)>>

\* np.searchsorted(ref_freq_list, x) of an increasing list
SearchSorted(ref, x) == Cardinality({i \in 1..Len(ref) : RatLess(ref[i], x)})

\* ref_freq_list[1] of refreq_ampl raises IndexError for a list of fewer than 2
RefreqRaises(ref_freq_list) == Len(ref_freq_list) < 2

\* ref_freq_step: the distance of the two dummy entries from the ends of the
\* reference (not 0 for increasing frequencies; the dummy entries repeat the
\* end amplitudes, so the result does not depend on its value)
RefFreqStep == Whole(1)

\* np.log(np.clip(v, 1e-12, None)) of a value kept as its logarithm to base 2:
\* the floor 1e-12 is kept as 2 ** -40
ClipLog(v) == IF RatLess(v, Whole(C_CLIP_LOG2)) THEN Whole(C_CLIP_LOG2) ELSE v
ClipLogList(l) == [i \in 1..Len(l) |-> ClipLog(l[i])]

\* (variant: the amplitude of the reference point below the new frequency)
RefreqAtHold(ref_freq_in, ref_ampl_in, x_in) ==
    LET ref_ampl == ClipLogList(ref_ampl_in)
        pady == <<ref_ampl[1]>> \o ref_ampl \o <<ref_ampl[Len(ref_ampl)]>>
    IN  pady[SearchSorted(ref_freq_in, x_in) + 1]

\* the log-log interpolation of refreq_ampl at one new frequency x
RefreqAt(ref_freq_in, ref_ampl_in, x_in) ==
    LET ref_freq == ClipLogList(ref_freq_in)
        ref_ampl == ClipLogList(ref_ampl_in)
        x == ClipLog(x_in)
        n == Len(ref_freq)
        padx == <<RatSub(ref_freq[1], RefFreqStep)>> \o ref_freq
                \o <<RatAdd(ref_freq[n], RefFreqStep)>>
        pady == <<ref_ampl[1]>> \o ref_ampl \o <<ref_ampl[n]>>
        k == SearchSorted(ref_freq_in, x_in)
        x1 == padx[k + 1]
        x2 == padx[k + 2]
        y1 == pady[k + 1]
        y2 == pady[k + 2]
    IN  IF x2 = x1 THEN NaN
        ELSE RatAdd(y1, RatMul(RatDiv(RatSub(y2, y1), RatSub(x2, x1)), RatSub(x, x1)))

refreq_ampl(ref_freq_list, ref_ampl_list, new_freq_list) ==
    [i \in 1..Len(new_freq_list) |-> RefreqAt(ref_freq_list, ref_ampl_list, new_freq_list[i])]

\* np.divide(ampl_list, cal_ampl_list)
SpecDivide(ampl, cal) == [i \in 1..Len(ampl) |-> RatSub(ampl[i], cal[i])]

\* "Apply Calibration": the stored curve, resampled when its length differs
NeedsRefreq(ampl) == Len(cal_ampl_list) # Len(ampl)
CalRaises(a, ampl) == CalTruthy(a) /\ NeedsRefreq(ampl) /\ RefreqRaises(cal_freq_list)
CalCurve(ampl) ==
    IF NeedsRefreq(ampl) THEN refreq_ampl(cal_freq_list, cal_ampl_list, LiveFreqs)
    ELSE cal_ampl_list
Calibrated(a, ampl) == IF CalTruthy(a) THEN SpecDivide(ampl, CalCurve(ampl)) ELSE ampl

\* the average "in a log sense" of the history, bin by bin
RECURSIVE BinSum(_, _, _)
BinSum(h, bin, n) ==
    IF n = 0 THEN Whole(0) ELSE RatAdd(ClipLog(h[n].ampl_list[bin]), BinSum(h, bin, n - 1))

\* (variant: the sum of the logarithms is not divided by the number of entries)
HistAverageSum(h) ==
    CHOOSE r \in {[bin \in 1..Len(LiveFreqs) |-> BinSum(hh, bin, Len(hh))] : hh \in {h}} : TRUE

HistAverage(h) ==
    CHOOSE r \in {[bin \in 1..Len(LiveFreqs) |->
                       RatDiv(BinSum(hh, bin, Len(hh)), Whole(Len(hh)))] : hh \in {h}} : TRUE

\* "Capture Calibration Data to Apply Next Time"
CalFinish(a) ==
    IF a.kind = "None"
    THEN /\ apply_cal' = CalOff
         /\ UNCHANGED <<cal_freq_list, cal_ampl_list>>
    ELSE IF a.kind = "list"
    THEN /\ cal_freq_list' = a.curve[1]
         /\ cal_ampl_list' = a.curve[2]
         /\ apply_cal' = CalOn
    ELSE UNCHANGED calVars

\* (variant: the removal of the plot is sent while the calibration is off too)
CalMsgsRemoveWhenOff(a) ==
    IF a.kind \in {"None", "False"} THEN <<Msg("Guido", "remove_plot", "Cal")>>
    ELSE IF a.kind = "list" THEN <<Msg("Guido", "plot_data", "Cal")>>
    ELSE <<>>

CalMsgs(a) ==
    IF a.kind = "None" THEN <<Msg("Guido", "remove_plot", "Cal")>>
    ELSE IF a.kind = "list" THEN <<Msg("Guido", "plot_data", "Cal")>>
    ELSE <<>>

\* One analysis pass.  powerTotal_db, max_ampl_TS, powerIn and found are those
\* of the calibrated spectrum of the buffer, ampl_in is its spectrum before
\* the calibration.
analyze(bufDuration, toneDurIn, curF, found, powerTotal_db, max_ampl_TS, powerIn, ampl_in) ==
    LET toneDuration == IF FreqPos(curF) THEN toneDurIn ELSE 0
        a == apply_cal
        ampl == Calibrated(a, ampl_in)
        collect == runNoiseMeas /\ measNoiseCnt < NoisePoints
        spike == runDelayMeas /\ powerTotal_db > measDelaySpikeThresh_db
        powerInBOI == IF FreqPos(curF) THEN Num(powerIn) ELSE None
        foundSweepFreq == IF FreqPos(curF) /\ found THEN curF ELSE None
        entry == [age |-> 0, bufDuration |-> bufDuration, toneDuration |-> toneDuration,
                  foundSweepFreq |-> foundSweepFreq, powerInBOI |-> powerInBOI,
                  ampl_list |-> ampl]
        h == hist_add(hist_list, hist_dur, entry)
        ff == FreqFound(h, curF, settle_dur, 1)
        ready == /\ SweepArmed(curF)
                 /\ sweep_ready(h, ff, curF, foundSweepFreq, toneDuration, settle_dur)
        storeRaises == ready /\ StoreRaises
        store == ready /\ ~StoreRaises /\ CanStore
    IN  IF CalRaises(a, ampl_in)
        THEN \* refreq_ampl raises: the pass ends here, the message is not acknowledged
             /\ ana_error' = TRUE
             /\ sent' = <<>>
             /\ UNCHANGED <<flagVars, state, cfgVars, sweep_freq, settle_dur, hist_list,
                            noiseVars, delayVars, spikeVars, runSweepMeas, sweepVars,
                            pc, snap, localVars, timer_expiry, pulse_gen_TS, elapsed,
                            stopped, budget, calVars, live_ampl, avg_ampl, fnVars, extVars>>
        ELSE
        /\ hist_list' = h
        /\ live_ampl' = ampl
        /\ avg_ampl' = HistAverage(h)
        /\ ana_error' = storeRaises    \* the pass ends at the store, not acknowledged
        /\ IF collect
           THEN /\ measNoise_db' = [measNoise_db EXCEPT ![measNoiseCnt + 1] = Num(powerTotal_db)]
                /\ measNoiseCnt' = measNoiseCnt + 1
                /\ runNoiseMeas' = (measNoiseCnt + 1 < NoisePoints)
           ELSE UNCHANGED <<measNoise_db, measNoiseCnt, runNoiseMeas>>
        /\ IF spike
           THEN measDelaySpike_TS' = Num(max_ampl_TS) /\ runDelayMeas' = FALSE
           ELSE UNCHANGED spikeVars
        /\ IF store
           THEN /\ sweepFreqs' = [sweepFreqs EXCEPT ![sweepCnt + 1] = curF]
                /\ sweepAmpls' = [sweepAmpls EXCEPT ![sweepCnt + 1] =
                                      NpSqrt(NpAverage(BOIList(h, AvgSlice(ff))))]
                /\ sweepCnt' = sweepCnt + 1
                /\ runSweepMeas' = FALSE
           ELSE UNCHANGED <<sweepVars, runSweepMeas>>
        /\ IF storeRaises THEN UNCHANGED calVars ELSE CalFinish(a)
        /\ sent' = <<Msg("Guido", "plot_data", "Live"), Msg("Guido", "plot_data", "Avg")>>
                   \o (IF store THEN <<Msg("Guido", "plot_data", "Sweep")>> ELSE <<>>)
                   \o (IF storeRaises THEN <<>> ELSE CalMsgs(a))
        /\ UNCHANGED <<flagVars, state, cfgVars, sweep_freq, settle_dur,
                       measNoiseMin_db, measNoiseAvg_db, measNoiseMax_db,
                       measDelaySpikeThresh_db, delayVars, pc, snap, localVars,
                       timer_expiry, pulse_gen_TS, elapsed, stopped, budget, fnVars, extVars>>

----------------------------------------------------------------------------
(* Scheduler tick: one iteration of the loop of AudioAnalyzer.run          *)

\* REQ_vol answers 20*np.log10(self.vol); the generator's vol is 0 after its
\* construction and after a change_vol of C_VOL_MIN_DB or less, and the answer
\* is then -inf.  -inf is kept as NegInfDb, and -inf + d is -inf.
NegInfDb == 0 - 1000
VolAdd(v, d) == IF v = NegInfDb THEN NegInfDb ELSE v + d

\* replies of the generator to REQ_mode and REQ_vol: its mode, its volume [dB]
GenSettings == {<<"Single Tone", 0 - 12>>, <<"Noise", NegInfDb>>}

\* timestamps: of the loudest sample of a buffer, and the replies of the
\* generator to REQ_delay_meas_peak_ts (None: no pulse was generated)
MaxTS == 3
SpikeTS == {MaxTS - 1}
GenPeakTS == {None, Num(1), Num(MaxTS - 1), Num(MaxTS)}

Expired == timer_expiry = 0                   \* time.monotonic() >= timer_expiry
\* (variant: the timer has expired as soon as it is set)
SetTimerExpired(s) == timer_expiry' = 0 /\ elapsed' = 0

SetTimer(s) == timer_expiry' = s /\ elapsed' = 0
KeepTimer == UNCHANGED <<timer_expiry, elapsed>>

meas_on == snap.sweep \/ snap.delay \/ snap.noise

\* the end of an iteration: the messages it sent; the flag copies are dead
EndStep(msgs) == pc' = "sleep" /\ snap' = NoSnap /\ sent' = msgs

\* "Capture Current Asynchronous State"
TickSnapshot ==
    /\ pc = "sleep"
    /\ pc' = "step"
    /\ snap' = [sweep |-> sweep_on, delay |-> delay_meas_on, noise |-> noise_meas_on]
    /\ sent' = <<>>
    /\ UNCHANGED <<flagVars, state, cfgVars, sweep_freq, settle_dur, hist_list, noiseVars,
                   delayVars, spikeVars, runSweepMeas, sweepVars, localVars,
                   timer_expiry, pulse_gen_TS, elapsed, stopped, budget, calVars, outVars>>

\* (variant: only the mode is given back)
RestoreModeOnly(mode, vol) ==
    IF mode # "TBD" THEN <<Msg("Gen", "change_mode", mode)>> ELSE <<>>

\* the messages that give the generator its saved mode and volume back
RestoreMsgs(mode, vol) ==
    (IF mode # "TBD" THEN <<Msg("Gen", "change_mode", mode)>> ELSE <<>>)
    \o (IF vol # TBD THEN <<Msg("Gen", "change_vol", vol[1])>> ELSE <<>>)

\* (variant: a stop is not looked for while a sweep point is awaited)
StopDetectedOutsideSweepMeas == state \notin {"IDLE", "SWEEP_MEAS"} /\ ~meas_on

StopDetected == state # "IDLE" /\ ~meas_on

\* "RUN SM: Stop Detection"
TickStop ==
    /\ pc = "step"
    /\ StopDetected
    /\ sweep_on' = FALSE /\ delay_meas_on' = FALSE /\ noise_meas_on' = FALSE
    /\ state' = "IDLE"
    /\ genMode' = "TBD" /\ genVol' = TBD
    /\ sweepFreqs' = NanList(sweep_points)
    /\ sweepAmpls' = NanList(sweep_points)
    /\ sweepCnt' = 0
    /\ runSweepMeas' = FALSE
    /\ pulse_gen_TS' = None
    /\ EndStep(<<Msg("Gen", "play_tone", FreqZero)>> \o RestoreMsgs(genMode, genVol))
    /\ KeepTimer
    /\ UNCHANGED <<cfgVars, sweep_freq, settle_dur, hist_list, noiseVars, delayVars,
                   spikeVars, sweep_freq_cnt, retry_cnt, stopped, budget, calVars, outVars>>

\* "RUN SM: IDLE State"
TickIdle ==
    /\ pc = "step"
    /\ ~StopDetected
    /\ state = "IDLE"
    /\ pulse_gen_TS' = None
    /\ IF meas_on
       THEN /\ noise_meas_on' = (IF snap.sweep \/ snap.delay THEN TRUE ELSE noise_meas_on)
            /\ delay_meas_on' = (IF snap.sweep THEN TRUE ELSE delay_meas_on)
            /\ SetTimer(C_START_SETTLE_S)
            /\ state' = "START_SETTLE"
            /\ EndStep(<<Msg("Gen", "play_tone", FreqZero)>>)
       ELSE /\ UNCHANGED <<noise_meas_on, delay_meas_on, state>>
            /\ KeepTimer
            /\ EndStep(<<>>)
    /\ UNCHANGED <<sweep_on, cfgVars, sweep_freq, settle_dur, hist_list, noiseVars,
                   delayVars, spikeVars, runSweepMeas, sweepVars, localVars,
                   stopped, budget, calVars, outVars>>

\* (variant: the delay request is looked at before the noise request)
AfterSettleDelayFirst ==
    IF snap.delay THEN "DELAY_INIT"
    ELSE IF snap.noise THEN "NOISE_INIT"
    ELSE IF snap.sweep THEN "SWEEP_INIT"
    ELSE "IDLE"

\* the state START_SETTLE hands over to
AfterSettle ==
    IF snap.noise THEN "NOISE_INIT"
    ELSE IF snap.delay THEN "DELAY_INIT"
    ELSE IF snap.sweep THEN "SWEEP_INIT"
    ELSE "IDLE"

TickStartSettle ==
    /\ pc = "step"
    /\ ~StopDetected
    /\ state = "START_SETTLE"
    /\ state' = (IF Expired THEN AfterSettle ELSE state)
    /\ pulse_gen_TS' = None
    /\ EndStep(<<>>)
    /\ KeepTimer
    /\ UNCHANGED <<flagVars, cfgVars, sweep_freq, settle_dur, hist_list, noiseVars,
                   delayVars, spikeVars, runSweepMeas, sweepVars, localVars,
                   stopped, budget, calVars, outVars>>

\* "RUN SM: Noise Measurement"
TickNoiseInit ==
    /\ pc = "step"
    /\ ~StopDetected
    /\ state = "NOISE_INIT"
    /\ IF ~runNoiseMeas
       THEN /\ measNoise_db' = NanList(NoisePoints)
            /\ measNoiseCnt' = 0
            /\ state' = "NOISE_MEAS"
            /\ runNoiseMeas' = TRUE
       ELSE UNCHANGED <<measNoise_db, measNoiseCnt, state, runNoiseMeas>>
    /\ pulse_gen_TS' = None
    /\ EndStep(<<>>)
    /\ KeepTimer
    /\ UNCHANGED <<flagVars, cfgVars, sweep_freq, settle_dur, hist_list,
                   measNoiseMin_db, measNoiseAvg_db, measNoiseMax_db,
                   measDelaySpikeThresh_db, delayVars, spikeVars, runSweepMeas,
                   sweepVars, localVars, stopped, budget, calVars, outVars>>

\* (variant: the threshold is the loudest noise sample itself)
SpikeThreshNoMargin(max_db) == max_db

\* measNoiseMax_db + C_DELAY_SPIKE_THRESH_ABOVE_NOISE_DB
SpikeThresh(max_db) == max_db + C_DELAY_SPIKE_THRESH_ABOVE_NOISE_DB

TickNoiseMeas ==
    /\ pc = "step"
    /\ ~StopDetected
    /\ state = "NOISE_MEAS"
    /\ IF ~runNoiseMeas
       THEN /\ measNoiseMin_db' = NpMin(measNoise_db)
            /\ measNoiseAvg_db' = NpAverage(measNoise_db)
            /\ measNoiseMax_db' = NpMax(measNoise_db)
            /\ measDelaySpikeThresh_db' = SpikeThresh(NpMax(measNoise_db)[1])
            /\ noise_meas_on' = FALSE
            /\ IF snap.delay THEN state' = "DELAY_INIT" /\ EndStep(<<>>)
               ELSE IF snap.sweep THEN state' = "SWEEP_INIT" /\ EndStep(<<>>)
               ELSE /\ state' = "IDLE"
                    /\ EndStep(<<Msg("Guido", "MsgBox", "noise"),
                                 Msg("Guido", "noise_finished", None)>>)
       ELSE /\ UNCHANGED <<measNoiseMin_db, measNoiseAvg_db, measNoiseMax_db,
                           measDelaySpikeThresh_db, noise_meas_on, state>>
            /\ EndStep(<<>>)
    /\ pulse_gen_TS' = None
    /\ KeepTimer
    /\ UNCHANGED <<sweep_on, delay_meas_on, cfgVars, sweep_freq, settle_dur, hist_list,
                   runNoiseMeas, measNoise_db, measNoiseCnt, delayVars, spikeVars,
                   runSweepMeas, sweepVars, localVars, stopped, budget, calVars, outVars>>

\* "RUN SM: Delay Measurement"
TickDelayInit ==
    /\ pc = "step"
    /\ ~StopDetected
    /\ state = "DELAY_INIT"
    /\ IF ~runDelayMeas
       THEN /\ measDelaySpike_TS' = None
            /\ measDelays' = NanList(DelayPoints)
            /\ measDelaysCnt' = 0
            /\ retry_cnt' = 0
            /\ \E g \in GenSettings :
                   /\ genMode' = g[1]                \* reply to REQ_mode
                   /\ genVol' = Num(g[2])            \* reply to REQ_vol
            /\ state' = "DELAY_ARM_DETECT"
            /\ SetTimer(0)
            /\ EndStep(<<Msg("Gen", "REQ_mode", None), Msg("Gen", "REQ_vol", None),
                         Msg("Gen", "change_mode", "Delay Meas")>>)
            /\ UNCHANGED runDelayMeas
       ELSE /\ runDelayMeas' = FALSE
            /\ EndStep(<<>>)
            /\ KeepTimer
            /\ UNCHANGED <<measDelaySpike_TS, measDelays, measDelaysCnt, retry_cnt,
                           genMode, genVol, state>>
    /\ pulse_gen_TS' = None
    /\ UNCHANGED <<flagVars, cfgVars, sweep_freq, settle_dur, hist_list, noiseVars,
                   measDelayMin, measDelayAvg, measDelayMax, runSweepMeas, sweepVars,
                   sweep_freq_cnt, stopped, budget, calVars, outVars>>

TickDelayArmDetect ==
    /\ pc = "step"
    /\ ~StopDetected
    /\ state = "DELAY_ARM_DETECT"
    /\ IF Expired
       THEN /\ runDelayMeas' = TRUE
            /\ SetTimer(C_ARM_WAIT_S)
            /\ state' = "DELAY_GEN_PULSE"
       ELSE UNCHANGED <<runDelayMeas, state>> /\ KeepTimer
    /\ pulse_gen_TS' = None
    /\ EndStep(<<>>)
    /\ UNCHANGED <<flagVars, cfgVars, sweep_freq, settle_dur, hist_list, noiseVars,
                   delayVars, measDelaySpike_TS, runSweepMeas, sweepVars, localVars,
                   stopped, budget, calVars, outVars>>

\* the change_vol that goes before a pulse
PulseVolMsgs(retry, vol) ==
    IF retry > 0
    THEN <<Msg("Gen", "change_vol", VolAdd(vol[1], C_VOL_INC_PER_RETRY_DB * retry))>>
    ELSE IF retry < 0 THEN <<Msg("Gen", "change_vol", vol[1])>>
    ELSE <<>>

pulse_freq == GeoFreq(start_freq, stop_freq, measDelaysCnt, DelayPoints - 1)

TickDelayGenPulse ==
    /\ pc = "step"
    /\ ~StopDetected
    /\ state = "DELAY_GEN_PULSE"
    /\ IF Expired
       THEN /\ retry_cnt' = (IF retry_cnt < 0 THEN 0 ELSE retry_cnt)
            /\ SetTimer(C_PULSE_TIMEOUT_S)
            /\ state' = "DELAY_MEAS"
            /\ EndStep(PulseVolMsgs(retry_cnt, genVol)
                       \o <<Msg("Gen", "gen_pulse", pulse_freq)>>)
       ELSE UNCHANGED <<retry_cnt, state>> /\ KeepTimer /\ EndStep(<<>>)
    /\ pulse_gen_TS' = None
    /\ UNCHANGED <<flagVars, cfgVars, sweep_freq, settle_dur, hist_list, noiseVars,
                   delayVars, spikeVars, runSweepMeas, sweepVars, sweep_freq_cnt,
                   genMode, genVol, stopped, budget, calVars, outVars>>

\* retry_cnt += 1 (the model's counter saturates at MaxRetryCnt)
RetryInc(r) == Min2(r + 1, MaxRetryCnt)

\* (variant: a spike at the very timestamp of the pulse counts as well)
PulseDetectedOrSame(gen_TS, det_TS) ==
    gen_TS # None /\ det_TS # None /\ ~(det_TS[1] < gen_TS[1])

\* the pulse was generated and detected after it was generated
PulseDetected(gen_TS, det_TS) ==
    gen_TS # None /\ det_TS # None /\ ~(det_TS[1] <= gen_TS[1])

\* a timed out pulse is tried again
TimeoutRetry(r) == r <= C_MAX_TIMEOUT_RETRY

\* self.settle_dur = self.measDelayMax * C_SETTLE_FACTOR  (kept times 4)
SettleFromDelay(max) == IF max = NaN THEN NaN ELSE Num(5 * max[1])

\* the end of the delay stages: statistics, settle duration, generator restored
DelayFinish(delays, req) ==
    /\ measDelayMin' = NpMin(delays)
    /\ measDelayAvg' = NpAverage(delays)
    /\ measDelayMax' = NpMax(delays)
    /\ settle_dur' = SettleFromDelay(NpMax(delays))
    /\ delay_meas_on' = FALSE
    /\ genMode' = "TBD" /\ genVol' = TBD
    /\ IF snap.sweep
       THEN /\ state' = "SWEEP_INIT"
            /\ EndStep(req
                       \o <<Msg("Gen", "change_mode", genMode),
                            Msg("Gen", "change_vol", genVol[1])>>)
       ELSE /\ state' = "IDLE"
            /\ EndStep(req
                       \o <<Msg("Gen", "change_mode", genMode),
                            Msg("Gen", "change_vol", genVol[1]),
                            Msg("Guido", "MsgBox", "delay"),
                            Msg("Guido", "delay_finished", None)>>)

\* DELAY_MEAS, the detector has fired: evaluate the pulse
TickDelayMeasEval ==
    /\ pc = "step"
    /\ ~StopDetected
    /\ state = "DELAY_MEAS"
    /\ ~runDelayMeas
    /\ pulse_gen_TS' \in GenPeakTS              \* reply to REQ_delay_meas_peak_ts
    /\ LET good == PulseDetected(pulse_gen_TS', measDelaySpike_TS)
           delays == IF good
                     THEN [measDelays EXCEPT ![measDelaysCnt + 1] =
                               Num(measDelaySpike_TS[1] - pulse_gen_TS'[1])]
                     ELSE measDelays
           cnt == IF good THEN measDelaysCnt + 1 ELSE measDelaysCnt
       IN  /\ measDelays' = delays
           /\ measDelaysCnt' = cnt
           /\ retry_cnt' = (IF good THEN (IF retry_cnt > 0 THEN 0 - 1 ELSE 0)
                            ELSE RetryInc(retry_cnt))
           /\ SetTimer(IF good THEN 0 ELSE C_RETRY_WAIT_S)
           /\ IF cnt < DelayPoints
              THEN /\ state' = "DELAY_ARM_DETECT"
                   /\ EndStep(<<Msg("Gen", "REQ_delay_meas_peak_ts", None)>>)
                   /\ UNCHANGED <<measDelayMin, measDelayAvg, measDelayMax, settle_dur,
                                  delay_meas_on, genMode, genVol>>
              ELSE DelayFinish(delays, <<Msg("Gen", "REQ_delay_meas_peak_ts", None)>>)
    /\ UNCHANGED <<sweep_on, noise_meas_on, cfgVars, sweep_freq, hist_list, noiseVars,
                   spikeVars, runSweepMeas, sweepVars, sweep_freq_cnt, stopped, budget, calVars, outVars>>

\* DELAY_MEAS, still armed
TickDelayMeasWait ==
    /\ pc = "step"
    /\ ~StopDetected
    /\ state = "DELAY_MEAS"
    /\ runDelayMeas
    /\ pulse_gen_TS' = None
    /\ KeepTimer
    /\ IF Expired
       THEN IF TimeoutRetry(retry_cnt)
            THEN /\ retry_cnt' = RetryInc(retry_cnt)
                 /\ state' = "DELAY_ARM_DETECT"
                 /\ EndStep(<<>>)
                 /\ UNCHANGED <<measDelayMin, measDelayAvg, measDelayMax, settle_dur,
                                delay_meas_on, genMode, genVol>>
            ELSE /\ DelayFinish(measDelays, <<>>)
                 /\ UNCHANGED retry_cnt
       ELSE /\ EndStep(<<>>)
            /\ UNCHANGED <<retry_cnt, state, measDelayMin, measDelayAvg, measDelayMax,
                           settle_dur, delay_meas_on, genMode, genVol>>
    /\ UNCHANGED <<sweep_on, noise_meas_on, cfgVars, sweep_freq, hist_list, noiseVars,
                   measDelays, measDelaysCnt, spikeVars, runSweepMeas, sweepVars,
                   sweep_freq_cnt, stopped, budget, calVars, outVars>>

\* "RUN SM: Sweep"
TickSweepInit ==
    /\ pc = "step"
    /\ ~StopDetected
    /\ state = "SWEEP_INIT"
    /\ IF ~runSweepMeas
       THEN /\ start_freq' = Min2(start_freq, stop_freq)
            /\ stop_freq' = Max2(start_freq, stop_freq)
            /\ sweep_freq_cnt' = 0
            /\ state' = "SWEEP_GEN_TONE"
       ELSE UNCHANGED <<start_freq, stop_freq, sweep_freq_cnt, state>>
    /\ pulse_gen_TS' = None
    /\ EndStep(<<>>)
    /\ KeepTimer
    /\ UNCHANGED <<flagVars, hist_dur, sweep_points, gain_db, sweep_freq, settle_dur, hist_list,
                   noiseVars, delayVars, spikeVars, runSweepMeas, sweepVars,
                   retry_cnt, genMode, genVol, stopped, budget, calVars, outVars>>

\* the frequency of the tone number cnt (from 0) of a sweep
SweepTone(cnt) == GeoFreq(start_freq, stop_freq, cnt, sweep_points - 1)

TickSweepGenTone ==
    /\ pc = "step"
    /\ ~StopDetected
    /\ state = "SWEEP_GEN_TONE"
    /\ pulse_gen_TS' = None
    /\ KeepTimer
    /\ IF sweep_points = 1
       THEN \* ZeroDivisionError: sweep_freq_cnt / (self.sweep_points - 1) ends run()
            /\ pc' = "crashed" /\ snap' = NoSnap /\ sent' = <<>>
            /\ UNCHANGED <<sweep_freq, sweep_freq_cnt, runSweepMeas, state>>
       ELSE /\ sweep_freq' = SweepTone(sweep_freq_cnt)
            /\ sweep_freq_cnt' = sweep_freq_cnt + 1
            /\ runSweepMeas' = TRUE
            /\ state' = "SWEEP_MEAS"
            /\ EndStep(<<Msg("Gen", "play_tone", SweepTone(sweep_freq_cnt))>>)
    /\ UNCHANGED <<flagVars, cfgVars, settle_dur, hist_list, noiseVars, delayVars,
                   spikeVars, sweepVars, retry_cnt, genMode, genVol, stopped, budget, calVars, outVars>>

\* the sweep has commanded all its tones
SweepDone == sweep_freq_cnt >= sweep_points \/ start_freq = stop_freq

TickSweepMeas ==
    /\ pc = "step"
    /\ ~StopDetected
    /\ state = "SWEEP_MEAS"
    /\ pulse_gen_TS' = None
    /\ KeepTimer
    /\ IF ~runSweepMeas
       THEN IF SweepDone
            THEN /\ sweep_freq' = FreqZero
                 /\ sweep_on' = FALSE
                 /\ state' = "IDLE"
                 /\ EndStep(<<Msg("Gen", "play_tone", FreqZero),
                              Msg("Guido", "sweep_finished", None)>>)
            ELSE /\ state' = "SWEEP_GEN_TONE"
                 /\ EndStep(<<>>)
                 /\ UNCHANGED <<sweep_freq, sweep_on>>
       ELSE /\ EndStep(<<>>)
            /\ UNCHANGED <<sweep_freq, sweep_on, state>>
    /\ UNCHANGED <<delay_meas_on, noise_meas_on, cfgVars, settle_dur, hist_list,
                   noiseVars, delayVars, spikeVars, runSweepMeas, sweepVars, localVars,
                   stopped, budget, calVars, outVars>>

TickStep ==
    \/ TickStop
    \/ TickIdle
    \/ TickStartSettle
    \/ TickNoiseInit
    \/ TickNoiseMeas
    \/ TickDelayInit
    \/ TickDelayArmDetect
    \/ TickDelayGenPulse
    \/ TickDelayMeasEval
    \/ TickDelayMeasWait
    \/ TickSweepInit
    \/ TickSweepGenTone
    \/ TickSweepMeas

----------------------------------------------------------------------------
(* Time                                                                    *)

\* One second passes.  An age is counted up to hist_dur + 1 (aged out; hist_dur
\* does not change in this specification), elapsed while the timer runs.
Advance ==
    /\ timer_expiry' = Max2(0, timer_expiry - 1)
    /\ elapsed' = (IF timer_expiry > 0 THEN elapsed + 1 ELSE elapsed)
    /\ hist_list' = [i \in 1..Len(hist_list) |->
                        [hist_list[i] EXCEPT !.age = Min2(@ + 1, hist_dur + 1)]]
    /\ sent' = <<>>
    /\ UNCHANGED <<flagVars, state, cfgVars, sweep_freq, settle_dur, noiseVars,
                   delayVars, spikeVars, runSweepMeas, sweepVars, pc, snap, localVars,
                   pulse_gen_TS, stopped, budget, calVars, outVars>>

----------------------------------------------------------------------------
(* The analyzer with its environment                                       *)

PowerDbs == {0 - 20, 0 - 10}       \* total power of a buffer [dB]: quiet, loud
BandPowers == {1}                  \* power in the buckets of interest
BufDurations == {1}
RawSpectra == {<<Whole(0), Whole(0), Whole(0)>>}   \* spectrum of a buffer before calibration

\* The microphone reader delivers its buffers one after another, each of them
\* one bufDuration long: the buffer before this one is older.  At most maxHist
\* buffers arrive within one history window.
BufferDue(maxHist) ==
    /\ Len(hist_clean(hist_list, hist_dur)) < maxHist
    /\ Len(hist_list) > 0 => hist_list[Len(hist_list)].age > 0

\* mic_data: analyze(buffer, inputBuf_TS, -1, 0)
MicBuffer(maxHist, spectra) ==
    /\ BufferDue(maxHist)
    /\ \E p \in PowerDbs, ts \in SpikeTS, d \in BufDurations, sp \in spectra :
           analyze(d, 0, FreqNeg, FALSE, p, ts, 1, sp)

\* mic_data_sweep: analyze(buffer, inputBuf_TS, currSweepFreq, currSweepFreq_TS)
\* of a buffer that the microphone reader tagged with the tone c
SweepBuffer(tags, founds, tds, bands, powers, maxHist) ==
    /\ BufferDue(maxHist)
    /\ \E c \in tags, f \in founds, td \in tds, b \in bands,
          p \in powers, ts \in SpikeTS, d \in BufDurations, sp \in RawSpectra :
           analyze(d, td, c, f, p, ts, b, sp)

\* the tones commanded so far: the tag of a buffer may lag behind the last one
CommandedTones == {SweepTone(i) : i \in 0..(sweep_freq_cnt - 1)}

MicData == MicBuffer(MaxHist, RawSpectra)

MicDataSweep ==
    /\ FreqPos(sweep_freq)
    /\ SweepBuffer(CommandedTones, BOOLEAN, {0, MaxToneDur}, BandPowers, PowerDbs, MaxHist)

Next ==
    \/ TickSnapshot
    \/ TickStep
    \/ Advance
    \/ \E b \in BOOLEAN : measure_sweep(b)
    \/ \E b \in BOOLEAN : measure_delay(b)
    \/ \E b \in BOOLEAN : measure_noise(b)
    \/ measure_stop
    \/ clear_sweep
    \/ MicData
    \/ MicDataSweep

Spec == Init /\ [][Next]_vars

----------------------------------------------------------------------------
(* The analyzer under fair scheduling, with every buffer of a tone good    *)

\* a buffer captured during the tone being played: tagged with that tone, the
\* tone found in it and settled, the power in its band always the same
GoodSweepBuffer ==
    /\ FreqPos(sweep_freq)
    /\ SweepBuffer({sweep_freq}, {TRUE}, {MaxToneDur}, {1}, PowerDbs, MaxHist)

LiveNext ==
    \/ TickSnapshot
    \/ TickStep
    \/ Advance
    \/ measure_sweep(TRUE)
    \/ measure_stop
    \/ MicData
    \/ GoodSweepBuffer

\* run() iterates every C_SWEEP_DWELL_DUR, time passes, and the microphone
\* reader keeps delivering buffers
Fairness ==
    /\ WF_vars(TickSnapshot)
    /\ WF_vars(TickStep)
    /\ WF_vars(Advance)
    /\ SF_vars(MicData)
    /\ SF_vars(GoodSweepBuffer)

LiveSpec == Init /\ [][LiveNext]_vars /\ Fairness

----------------------------------------------------------------------------
(* The analysis pass during a sweep, with a history of several buffers     *)

\* The analyzer when run() has just commanded tone number k of a sweep, after
\* a noise measurement of quiet buffers and a delay measurement that either
\* measured every pulse or gave up; the last buffer has aged out.  The history
\* window is dur seconds (change_hist_dur before the run).
AnaStateW(k, gaveUp, dur) ==
    /\ sweep_on = TRUE /\ delay_meas_on = FALSE /\ noise_meas_on = FALSE
    /\ state = "SWEEP_MEAS"
    /\ start_freq = C_FREQ_MIN /\ stop_freq = C_FREQ_MAX
    /\ sweep_freq = GeoFreq(C_FREQ_MIN, C_FREQ_MAX, k - 1, SweepPoints - 1)
    /\ settle_dur = (IF gaveUp THEN NaN ELSE SettleFromDelay(Num(MaxTS - 2)))
    /\ hist_dur = dur
    /\ gain_db = INIT_GAIN_DB
    /\ hist_list = <<[age |-> dur + 1, bufDuration |-> 1, toneDuration |-> 0,
                      foundSweepFreq |-> None, powerInBOI |-> None,
                      ampl_list |-> <<Whole(0), Whole(0), Whole(0)>>]>>
    /\ runNoiseMeas = FALSE
    /\ measNoise_db = [i \in 1..NoisePoints |-> Num(0 - 20)]
    /\ measNoiseCnt = NoisePoints
    /\ measNoiseMin_db = Num(0 - 20)
    /\ measNoiseAvg_db = <<(0 - 20) * NoisePoints, NoisePoints>>
    /\ measNoiseMax_db = Num(0 - 20)
    /\ measDelaySpikeThresh_db = SpikeThresh(0 - 20)
    /\ runDelayMeas = gaveUp
    /\ measDelaySpike_TS = (IF gaveUp THEN None ELSE Num(MaxTS - 1))
    /\ measDelays = (IF gaveUp THEN NanList(DelayPoints)
                     ELSE [i \in 1..DelayPoints |-> Num(MaxTS - 2)])
    /\ measDelaysCnt = (IF gaveUp THEN 0 ELSE DelayPoints)
    /\ measDelayMin = (IF gaveUp THEN NaN ELSE Num(MaxTS - 2))
    /\ measDelayAvg = (IF gaveUp THEN NaN ELSE <<(MaxTS - 2) * DelayPoints, DelayPoints>>)
    /\ measDelayMax = (IF gaveUp THEN NaN ELSE Num(MaxTS - 2))
    /\ runSweepMeas = TRUE
    /\ sweep_points = SweepPoints
    /\ sweepFreqs = [i \in 1..SweepPoints |->
                        IF i < k THEN GeoFreq(C_FREQ_MIN, C_FREQ_MAX, i - 1, SweepPoints - 1)
                        ELSE NaN]
    /\ sweepAmpls = [i \in 1..SweepPoints |-> IF i < k THEN NpSqrt(<<1, 1>>) ELSE NaN]
    /\ sweepCnt = k - 1
    /\ pc = "sleep" /\ snap = NoSnap
    /\ sweep_freq_cnt = k
    /\ timer_expiry = 0
    /\ retry_cnt = (IF gaveUp THEN C_MAX_TIMEOUT_RETRY + 1 ELSE 0)
    /\ genMode = "TBD" /\ genVol = TBD
    /\ sent = <<Msg("Gen", "play_tone",
                    GeoFreq(C_FREQ_MIN, C_FREQ_MAX, k - 1, SweepPoints - 1))>>
    /\ pulse_gen_TS = None
    /\ elapsed = (IF gaveUp THEN C_PULSE_TIMEOUT_S ELSE 0)
    /\ stopped = FALSE
    /\ budget = MaxBudget - 1
    /\ apply_cal = CalOff
    /\ cal_freq_list = <<>>
    /\ cal_ampl_list = <<>>
    /\ live_ampl = <<Whole(0), Whole(0), Whole(0)>>
    /\ avg_ampl = <<Whole(0), Whole(0), Whole(0)>>
    /\ ana_error = FALSE
    /\ msg_error = FALSE
    /\ call = NoCall
    /\ result = NoResult
    /\ InitBufMan
    /\ InitGen

AnaState(k, gaveUp) == AnaStateW(k, gaveUp, INIT_HIST_DUR)

\* (after a give-up no point is ever recorded: only the first tone is reached)
AnaInit ==
    \/ \E k \in 1..SweepPoints : AnaState(k, FALSE)
    \/ AnaState(1, TRUE)

AnaBandPowers == {1, 3}            \* 3 is more than 3 dB above 1

AnaMicData == MicBuffer(AnaMaxHist, RawSpectra)

AnaMicDataSweep ==
    SweepBuffer(CommandedTones, BOOLEAN, {0, MaxToneDur}, BandPowers, {0 - 20},
                AnaMaxHist)

AnaNext ==
    \/ AnaMicData
    \/ AnaMicDataSweep
    \/ Advance

AnaSpec == AnaInit /\ [][AnaNext]_vars

----------------------------------------------------------------------------
(* The analysis pass on the first tone of a sweep, with a history window   *)
(* that holds up to StatMaxHist buffers                                    *)

StatInit == AnaStateW(1, FALSE, StatHistDur)

StatMicDataSweep ==
    SweepBuffer(CommandedTones, {TRUE}, {0, MaxToneDur}, AnaBandPowers, {0 - 20},
                StatMaxHist)

StatNext ==
    \/ StatMicDataSweep
    \/ Advance

StatSpec == StatInit /\ [][StatNext]_vars

----------------------------------------------------------------------------
(* Properties of the state machine                                         *)

DelayStages == {"DELAY_ARM_DETECT", "DELAY_GEN_PULSE", "DELAY_MEAS"}
SweepStates == {"SWEEP_INIT", "SWEEP_GEN_TONE", "SWEEP_MEAS"}

\* this step is the body of one iteration of run()
TickBody == pc = "step" /\ pc' # "step"

HasMsg(s, to, type) == \E i \in 1..Len(s) : IsMsg(s[i], to, type)

\* a tick in IDLE has seen a sweep request (start_freq differs from stop_freq,
\* at least 2 points)
SweepRequestSeen ==
    /\ state = "IDLE" /\ pc = "step" /\ snap.sweep
    /\ start_freq # stop_freq /\ sweep_points >= 2

\* back in IDLE with all the points recorded, sweep_finished just sent once
SweepCompleted ==
    /\ state = "IDLE"
    /\ sweepCnt = sweep_points
    /\ Count(sent, "Guido", "sweep_finished") = 1

\* C1: with good buffers during every tone and fair scheduling, a sweep request
\* seen in IDLE leads (unless a stop is requested) to IDLE with sweepCnt equal
\* to sweep_points and one sweep_finished sent.
C1_SweepCompletes == SweepRequestSeen ~> (SweepCompleted \/ stopped)

SavedHeld == genMode # "TBD" \/ genVol # TBD

\* C3: the delay stages hold the saved mode and volume of the generator; every
\* step that leaves them sends exactly one change_mode and one change_vol, with
\* the saved mode and the saved volume, and clears both; no saved value is held
\* in IDLE or in a sweep state.
C3_RestoreOnExit ==
    /\ [](state \in ({"IDLE"} \cup SweepStates) => ~SavedHeld)
    /\ [](state \in DelayStages => (genMode # "TBD" /\ genVol # TBD))
    /\ [][ (state \in DelayStages /\ state' \notin DelayStages)
            => /\ Count(sent', "Gen", "change_mode") = 1
               /\ Count(sent', "Gen", "change_vol") = 1
               /\ \E i \in 1..Len(sent') :
                      IsMsg(sent'[i], "Gen", "change_mode") /\ sent'[i][3] = genMode
               /\ \E i \in 1..Len(sent') :
                      IsMsg(sent'[i], "Gen", "change_vol") /\ sent'[i][3] = genVol[1]
               /\ genMode' = "TBD" /\ genVol' = TBD
          ]_vars

\* a delay measurement that was stopped: tone off, mode and volume given back
C3_Witness ==
    /\ state = "IDLE" /\ pc = "sleep" /\ Len(sent) = 3
    /\ IsMsg(sent[1], "Gen", "play_tone")
    /\ IsMsg(sent[2], "Gen", "change_mode")
    /\ IsMsg(sent[3], "Gen", "change_vol")
    /\ ~SavedHeld

ToneOrPulse(m) ==
    \/ IsMsg(m, "Gen", "gen_pulse")
    \/ IsMsg(m, "Gen", "play_tone") /\ m[3] # FreqZero

\* C4: once measure_stop has been handled and until a measurement is requested
\* again, no step sends gen_pulse or a play_tone of a non-zero frequency.
C4_NoToneAfterStop ==
    stopped => \A i \in 1..Len(sent) : ~ToneOrPulse(sent[i])

\* C5: under fair scheduling a delay measurement that has started is
\* eventually left, whatever the outcome of each of its pulses is.
C5_DelayTerminates ==
    (state \in DelayStages) ~> (state \notin DelayStages)

\* this step evaluates a pulse in DELAY_MEAS (the detector has fired)
EvalStep == TickBody /\ state = "DELAY_MEAS" /\ ~StopDetected /\ ~runDelayMeas

\* the evaluated pulse has a generator timestamp and a strictly later spike
StrictlyLater ==
    /\ pulse_gen_TS' # None
    /\ measDelaySpike_TS # None
    /\ measDelaySpike_TS[1] > pulse_gen_TS'[1]

\* C6: the evaluation of a pulse records spike timestamp minus generator
\* timestamp (a positive value) in the next free slot and counts it, when the
\* generator timestamp is not null and the spike timestamp is strictly later;
\* otherwise it records nothing and increments the retry counter.  Nothing else
\* adds a sample, and the count never exceeds the number of points.
C6_DelaySample ==
    /\ [](measDelaysCnt <= DelayPoints)
    /\ [][
          /\ EvalStep =>
                IF StrictlyLater
                THEN /\ measDelaysCnt' = measDelaysCnt + 1
                     /\ measDelays' = [measDelays EXCEPT ![measDelaysCnt + 1] =
                                          Num(measDelaySpike_TS[1] - pulse_gen_TS'[1])]
                     /\ measDelays'[measDelaysCnt + 1][1] > 0
                ELSE /\ measDelays' = measDelays
                     /\ measDelaysCnt' = measDelaysCnt
                     /\ (retry_cnt' = retry_cnt + 1 \/ retry_cnt = MaxRetryCnt)
          /\ (measDelaysCnt' > measDelaysCnt) => (EvalStep /\ StrictlyLater)
          /\ (measDelays' # measDelays) =>
                 \/ EvalStep /\ StrictlyLater
                 \/ state = "DELAY_INIT" /\ measDelays' = NanList(DelayPoints)
       ]_vars

\* the first delay sample has been recorded
C6_Witness ==
    /\ state = "DELAY_ARM_DETECT" /\ pc = "sleep"
    /\ measDelaysCnt = 1 /\ measDelays[1] = Num(1)
    /\ Len(sent) = 1 /\ IsMsg(sent[1], "Gen", "REQ_delay_meas_peak_ts")

\* the last step gave the delay measurement up (no timestamp was asked for)
GaveUp ==
    /\ pc = "sleep" /\ Len(sent) >= 2
    /\ IsMsg(sent[1], "Gen", "change_mode")
    /\ IsMsg(sent[2], "Gen", "change_vol")

Collected == SubSeq(measDelays, 1, measDelaysCnt)

\* C7: when the delay measurement gives up with samples collected, the
\* minimum, average and maximum delay and the settle duration are those of the
\* collected samples.
C7_PartialStatistics ==
    (GaveUp /\ measDelaysCnt > 0)
       => /\ measDelayMin = NpMin(Collected)
          /\ measDelayAvg = NpAverage(Collected)
          /\ measDelayMax = NpMax(Collected)
          /\ settle_dur = SettleFromDelay(NpMax(Collected))

\* this step commands a pulse
PulseStep == TickBody /\ HasMsg(sent', "Gen", "gen_pulse")

\* C8: a pulse commanded with retry counter r > 0 comes right after
\* change_vol(saved volume + 3 r), a volume above the one requested for the
\* attempt before (saved volume + 3 (r - 1)); a success after retries flags the
\* counter, and the next pulse comes right after change_vol(saved volume) with
\* the counter at 0; a pulse with the counter at 0 changes no volume.
C8_VolumeEscalation ==
    [][ /\ (PulseStep /\ retry_cnt > 0)
           => /\ Len(sent') = 2
              /\ IsMsg(sent'[1], "Gen", "change_vol")
              /\ sent'[1][3] = VolAdd(genVol[1], 3 * retry_cnt)
              /\ sent'[1][3] > VolAdd(genVol[1], 3 * (retry_cnt - 1))
              /\ IsMsg(sent'[2], "Gen", "gen_pulse")
        /\ (PulseStep /\ retry_cnt < 0)
           => /\ Len(sent') = 2
              /\ IsMsg(sent'[1], "Gen", "change_vol")
              /\ sent'[1][3] = genVol[1]
              /\ IsMsg(sent'[2], "Gen", "gen_pulse")
              /\ retry_cnt' = 0
        /\ (PulseStep /\ retry_cnt = 0) => Len(sent') = 1
        /\ (EvalStep /\ StrictlyLater /\ retry_cnt > 0) => retry_cnt' < 0
      ]_vars

\* C9: a tick in IDLE that sees a request enters START_SETTLE with a timer of
\* 2 s; START_SETTLE is left either by the stop detection or, not before 2 s
\* have elapsed, for NOISE_INIT if noise is requested, else DELAY_INIT if
\* delay is requested, else SWEEP_INIT (sweep is requested).
C9_StartSettle ==
    [][ /\ (TickBody /\ state = "IDLE" /\ meas_on)
           => (state' = "START_SETTLE" /\ timer_expiry' = 2 /\ elapsed' = 0)
        /\ (state = "START_SETTLE" /\ state' # "START_SETTLE")
           => \/ StopDetected /\ state' = "IDLE"
              \/ /\ elapsed >= 2
                 /\ state' = (IF snap.noise THEN "NOISE_INIT"
                              ELSE IF snap.delay THEN "DELAY_INIT"
                              ELSE "SWEEP_INIT")
                 /\ (snap.noise \/ snap.delay \/ snap.sweep)
      ]_vars

\* START_SETTLE handed over to DELAY_INIT: no noise measurement was made
C9_Witness ==
    /\ state = "DELAY_INIT" /\ pc = "sleep"
    /\ measNoiseCnt = 0 /\ measNoiseMax_db = None
    /\ elapsed = 2 /\ timer_expiry = 0

\* the buffer the last analysis pass added to the history
LastBuf == hist_list'[Len(hist_list')]

\* C10: an analysis pass records a sweep point only if the sweep measurement
\* is armed, its buffer is tagged with the commanded sweep frequency and has
\* found it, and the tone duration of the buffer is at least settle_dur; the
\* point goes to the next free slot with the commanded frequency.
C10_SweepPointConditions ==
    [][ (sweepCnt' # sweepCnt \/ sweepFreqs' # sweepFreqs \/ sweepAmpls' # sweepAmpls)
        => /\ runSweepMeas
           /\ FreqPos(sweep_freq)
           /\ LastBuf.age = 0
           /\ LastBuf.foundSweepFreq = sweep_freq
           /\ settle_dur # NaN
           /\ 4 * LastBuf.toneDuration >= settle_dur[1]
           /\ sweepCnt' = sweepCnt + 1
           /\ sweepFreqs' = [sweepFreqs EXCEPT ![sweepCnt + 1] = sweep_freq]
      ]_vars

\* the second tone's point was recorded with a buffer of the first tone (found,
\* settled) still in the history
C10_Witness ==
    /\ sweepCnt = 2 /\ ~runSweepMeas
    /\ Len(sent) = 3
    /\ Len(hist_list) >= 2
    /\ hist_list[Len(hist_list)].foundSweepFreq = sweep_freq
    /\ \E i \in 1..(Len(hist_list) - 1) :
           /\ hist_list[i].foundSweepFreq = Hz(C_FREQ_MIN)
           /\ hist_list[i].toneDuration = MaxToneDur

----------------------------------------------------------------------------
(* Calibration: apply_cal messages and the analysis passes of mic_data     *)

CalMaxHist == 2        \* history entries kept by the calibration specification

\* spectra of the buffers before calibration
CalSpectra == {<<Whole(0), Whole(0), Whole(0)>>, <<Whole(2), Whole(0), Whole(1)>>}

\* the curves [freq_list, ampl_list] of the display: one on the grid of the
\* live spectrum, one on a grid of 2 frequencies
CalCurves ==
    {<<LiveFreqs, <<Whole(1), Whole(1), Whole(2)>>>>,
     <<<<Whole(0), Whole(2)>>, <<Whole(0), Whole(2)>>>>}

\* apply_cal: self.apply_cal = msg_data
msg_apply_cal(msg_data) ==
    /\ apply_cal' = msg_data
    /\ sent' = <<>>
    /\ UNCHANGED <<flagVars, state, cfgVars, sweep_freq, settle_dur, hist_list,
                   noiseVars, delayVars, spikeVars, runSweepMeas, sweepVars, pc, snap,
                   localVars, timer_expiry, pulse_gen_TS, elapsed, stopped, budget,
                   cal_freq_list, cal_ampl_list, outVars>>

CalMicData == MicBuffer(CalMaxHist, CalSpectra)

CalNext ==
    \/ \E c \in CalCurves : msg_apply_cal(CalList(c))
    \/ msg_apply_cal(CalRemove)
    \/ CalMicData
    \/ Advance

CalSpec == Init /\ [][CalNext]_vars

----------------------------------------------------------------------------
(* The history: change_hist_dur messages and the passes of mic_data        *)

HistMaxHist == 3       \* history entries kept by the history specification
HistDurs == {0 - 1, 0, 1, 2}          \* values of change_hist_dur [s]
HistAgeCap == INIT_HIST_DUR + 1        \* an age is counted up to the longest window + 1

\* changeHistDur
ClampHistDur(newHistDur) ==
    IF newHistDur <= C_HIST_DUR_MIN THEN C_HIST_DUR_MIN
    ELSE IF newHistDur >= C_HIST_DUR_MAX THEN C_HIST_DUR_MAX
    ELSE newHistDur

\* change_hist_dur: self.changeHistDur(msg_data)
change_hist_dur(msg_data) ==
    /\ hist_dur' = ClampHistDur(msg_data)
    /\ sent' = <<>>
    /\ UNCHANGED <<flagVars, state, start_freq, stop_freq, sweep_points, gain_db, sweep_freq,
                   settle_dur, hist_list, noiseVars, delayVars, spikeVars, runSweepMeas,
                   sweepVars, pc, snap, localVars, timer_expiry, pulse_gen_TS, elapsed,
                   stopped, budget, calVars, outVars>>

\* one second passes (no timer runs)
HistAdvance ==
    /\ hist_list' = [i \in 1..Len(hist_list) |->
                        [hist_list[i] EXCEPT !.age = Min2(@ + 1, HistAgeCap)]]
    /\ sent' = <<>>
    /\ UNCHANGED <<flagVars, state, cfgVars, sweep_freq, settle_dur, noiseVars,
                   delayVars, spikeVars, runSweepMeas, sweepVars, pc, snap, localVars,
                   timer_expiry, pulse_gen_TS, elapsed, stopped, budget, calVars, outVars>>

HistMicData == MicBuffer(HistMaxHist, CalSpectra)

HistNext ==
    \/ \E v \in HistDurs : change_hist_dur(v)
    \/ HistMicData
    \/ HistAdvance

HistSpec == Init /\ [][HistNext]_vars

----------------------------------------------------------------------------
(* Properties of the analysis pass                                         *)

\* this step is an analysis pass that ran to its end
PassStep ==
    /\ Len(sent') >= 2
    /\ IsMsg(sent'[1], "Guido", "plot_data") /\ sent'[1][3] = "Live"

\* this pass recorded a sweep point
PointStored == PassStep /\ sweepCnt' = sweepCnt + 1

\* the entries of the history, after the pass, that match the commanded tone
MatchingAfter == FreqFound(hist_list', sweep_freq, settle_dur, 1)

\* the power_in_band of the matching entries differs by more than 3 dB
SpreadAbove3dB(ix) ==
    SpreadExceeds(NpMax(BOIList(hist_list', ix))[1], NpMin(BOIList(hist_list', ix))[1])

\* C11: a pass records no sweep point with fewer than 3 matching history
\* entries, or with a spread of their power_in_band above 3 dB, while the time
\* spent on the point (the span of the matching entries) is below 80% of the
\* configured history window.
C11_NoAcceptBeforeTimeout ==
    [][ (PointStored /\ 5 * sweepBufElapsed(hist_list', MatchingAfter) < 4 * hist_dur)
        => /\ Len(MatchingAfter) >= C_STABLE_CNT
           /\ ~SpreadAbove3dB(StatSlice(MatchingAfter))
      ]_vars

\* the buffer of this pass has found the commanded tone, the tone has settled,
\* and at least 3 history entries match, with a spread of at most 3 dB
StableAfter ==
    /\ PassStep
    /\ FreqPos(sweep_freq)
    /\ LastBuf.foundSweepFreq = sweep_freq
    /\ GeSettle(LastBuf.toneDuration, settle_dur)
    /\ Len(MatchingAfter) >= C_STABLE_CNT
    /\ ~SpreadAbove3dB(MatchingAfter)

HasPlot(s, name) ==
    \E i \in 1..Len(s) : IsMsg(s[i], "Guido", "plot_data") /\ s[i][3] = name

\* the pass has recorded the point in the slot sweepCnt and disarmed
PointRecorded ==
    /\ sweepFreqs' = [sweepFreqs EXCEPT ![sweepCnt + 1] = sweep_freq]
    /\ sweepAmpls'[sweepCnt + 1] # NaN
    /\ \A i \in 1..Len(sweepAmpls) : i # sweepCnt + 1 => sweepAmpls'[i] = sweepAmpls[i]
    /\ sweepCnt' = sweepCnt + 1
    /\ ~runSweepMeas'
    /\ HasPlot(sent', "Sweep")

\* C12: while the sweep measurement is armed, a pass whose buffer has found
\* the commanded tone after the settle time, with at least 3 matching history
\* entries and a spread of at most 3 dB, records the point in the free slot
\* sweepCnt: frequency and amplitude stored, sweepCnt incremented, the
\* measurement disarmed and plot_data "Sweep" sent.
C12_StableAccepts ==
    [][ (StableAfter /\ runSweepMeas /\ CanStore) => PointRecorded ]_vars

\* (as stated, without "while the sweep measurement is armed")
C12_StableAcceptsUnarmed ==
    [][ (StableAfter /\ CanStore) => PointRecorded ]_vars

\* a point recorded for its stability, not by the time-out: three matching
\* entries after an entry of the tone before it had settled
C12_Witness ==
    /\ sweepCnt = 1 /\ ~runSweepMeas
    /\ HasPlot(sent, "Sweep")
    /\ Len(FreqFound(hist_list, sweep_freq, settle_dur, 1)) = C_STABLE_CNT
    /\ 5 * sweepBufElapsed(hist_list, FreqFound(hist_list, sweep_freq, settle_dur, 1))
           < 4 * totalBufElapsed(hist_list)

\* the amplitude a is the square root of the average of the power_in_band of
\* the entries ix of the history
IsSqrtOfAverage(a, ix) ==
    /\ a # NaN
    /\ a[1] * Len(ix) = SumTo(BOIList(hist_list', ix), Len(ix)) * a[2]

\* C13: the amplitude recorded for a sweep point is the square root of the
\* average power_in_band of the 3 most recent matching history entries when
\* more than 3 entries match, and of all matching entries otherwise.
C13_LastThreeStatistics ==
    [][ PointStored
        => IsSqrtOfAverage(sweepAmpls'[sweepCnt + 1], StatSlice(MatchingAfter)) ]_vars

\* C14: an analysis pass writes no sweep point at an index of sweep_points or
\* more and overwrites no filled slot; a pass that finds sweepCnt at
\* sweep_points or the slot sweepCnt filled leaves sweepFreqs, sweepAmpls and
\* sweepCnt as they are.
C14_NoOverflowNoOverwrite ==
    [][ PassStep
        => /\ Len(sweepFreqs') = Len(sweepFreqs) /\ Len(sweepAmpls') = Len(sweepAmpls)
           /\ \A i \in 1..Len(sweepFreqs) :
                  (sweepFreqs[i] # NaN \/ i > sweep_points)
                  => sweepFreqs'[i] = sweepFreqs[i] /\ sweepAmpls'[i] = sweepAmpls[i]
           /\ (sweepCnt >= sweep_points \/ sweepFreqs[sweepCnt + 1] # NaN)
              => UNCHANGED sweepVars
      ]_vars

\* a second sweep without clear_sweep: the pass of a buffer that has found the
\* settled tone, with the measurement armed, has refused to store the point
C14_Witness ==
    /\ state = "SWEEP_MEAS" /\ runSweepMeas
    /\ sweepCnt = sweep_points
    /\ HasPlot(sent, "Live") /\ ~HasPlot(sent, "Sweep")
    /\ Len(hist_list) > 0
    /\ hist_list[Len(hist_list)].age = 0
    /\ hist_list[Len(hist_list)].foundSweepFreq = sweep_freq
    /\ GeSettle(hist_list[Len(hist_list)].toneDuration, settle_dur)

----------------------------------------------------------------------------
(* The noise measurement                                                   *)

\* the noise measurement is complete and the spike threshold is the loudest of
\* its samples plus 3 dB
ThreshFromNoise(thresh) ==
    /\ measNoiseCnt = NoisePoints
    /\ ~HasNaN(measNoise_db)
    /\ thresh = NpMax(measNoise_db)[1] + C_DELAY_SPIKE_THRESH_ABOVE_NOISE_DB

NoiseStates == {"NOISE_INIT", "NOISE_MEAS"}

\* this step of run() completes the noise measurement
NoiseCompletes ==
    /\ state = "NOISE_MEAS"
    /\ state' \in {"DELAY_INIT", "SWEEP_INIT"} \/ HasMsg(sent', "Guido", "noise_finished")

\* C15: while the noise measurement is armed each analysis pass collects one
\* sample, and no pass collects one otherwise; the measurement completes with
\* exactly measNoise_points samples and sets the spike threshold to its loudest
\* sample plus 3 dB; the noise stages of a run are entered from START_SETTLE
\* only and the spike detector is armed in DELAY_ARM_DETECT only, that is after
\* the noise measurement of the run has completed.
C15_NoiseBeforeDelay ==
    [][ /\ PassStep
           => IF runNoiseMeas
              THEN /\ measNoiseCnt < NoisePoints
                   /\ measNoiseCnt' = measNoiseCnt + 1
                   /\ measNoise_db'[measNoiseCnt'] # NaN
                   /\ \A i \in 1..NoisePoints :
                          i # measNoiseCnt' => measNoise_db'[i] = measNoise_db[i]
                   /\ runNoiseMeas' = (measNoiseCnt' < NoisePoints)
              ELSE UNCHANGED <<measNoise_db, measNoiseCnt, runNoiseMeas>>
        /\ NoiseCompletes => ThreshFromNoise(measDelaySpikeThresh_db')
        /\ (state' \in NoiseStates) => state \in NoiseStates \cup {"START_SETTLE"}
        /\ (~runDelayMeas /\ runDelayMeas') => state = "DELAY_ARM_DETECT"
      ]_vars

\* the detector is armed for a pulse, after a noise measurement with a quiet
\* and a loud sample
C15_Witness ==
    /\ state = "DELAY_GEN_PULSE" /\ runDelayMeas /\ ~noise_meas_on
    /\ ThreshFromNoise(measDelaySpikeThresh_db)
    /\ NpMin(measNoise_db) # NpMax(measNoise_db)

----------------------------------------------------------------------------
(* Calibration                                                             *)

RemoveCount(s) == Cardinality({i \in 1..Len(s) : IsMsg(s[i], "Guido", "remove_plot")})

\* this step is an analysis pass that raised
PassRaised == ana_error' /\ ~ana_error

\* C16: with apply_cal(None) received, the analysis pass does not raise, does
\* not divide the spectrum, sends remove_plot "Cal" once and leaves the
\* calibration off; no other step sends a remove_plot.
C16_RemoveOnce ==
    [][ /\ apply_cal.kind = "None" => ~PassRaised
        /\ (PassStep /\ apply_cal.kind = "None")
           => /\ RemoveCount(sent') = 1
              /\ apply_cal' = CalOff
              /\ live_ampl' \in CalSpectra
              /\ UNCHANGED <<cal_freq_list, cal_ampl_list>>
        /\ apply_cal.kind # "None" => RemoveCount(sent') = 0
      ]_vars

\* the pass after an apply_cal(None) has sent the removal
C16_Witness ==
    /\ apply_cal = CalOff /\ ~ana_error
    /\ RemoveCount(sent) = 1
    /\ Len(hist_list) > 0 /\ hist_list[Len(hist_list)].age = 0

\* C17: with apply_cal(curve) received, the analysis pass of the next buffer
\* runs to its end, stores the curve, turns the calibration on and sends
\* plot_data "Cal".
C17_CurveStored ==
    [][ (apply_cal.kind = "list" /\ (PassStep \/ PassRaised))
        => /\ PassStep
           /\ apply_cal' = CalOn
           /\ cal_freq_list' = apply_cal.curve[1]
           /\ cal_ampl_list' = apply_cal.curve[2]
           /\ HasPlot(sent', "Cal")
      ]_vars

\* C18: an analysis pass that applies the calibration divides by a curve whose
\* frequency list and amplitude list were received in one apply_cal message.
C18_CurveFromOneMessage ==
    [][ (CalTruthy(apply_cal) /\ (PassStep \/ PassRaised))
        => <<cal_freq_list, cal_ampl_list>> \in CalCurves ]_vars

----------------------------------------------------------------------------
(* The history                                                             *)

NotAgedOut(e) == e.age <= hist_dur

\* the history after a pass, without the entry of the pass
Front(h) == SubSeq(h, 1, Len(h) - 1)

\* C19: an analysis pass evicts the history entries captured before now -
\* hist_dur and keeps the others, the entry captured exactly at now - hist_dur
\* included: the average and the sweep statistics of the pass are taken over
\* the kept entries and the entry of the pass, and over no older entry.
C19_OlderEvicted ==
    [][ PassStep
        => /\ Front(hist_list') = SelectSeq(hist_list, NotAgedOut)
           /\ \A i \in 1..Len(hist_list') : hist_list'[i].age <= hist_dur
           /\ avg_ampl' = HistAverage(hist_list')
      ]_vars

\* (as stated: the entry captured exactly at now - hist_dur is evicted too)
C19_BoundaryEvicted ==
    [][ PassStep
        => \A i \in 1..Len(Front(hist_list')) : hist_list'[i].age < hist_dur ]_vars

\* after a pass the history holds an entry captured exactly hist_dur ago
C19_Witness ==
    /\ HasPlot(sent, "Avg")
    /\ hist_dur > 0
    /\ Len(hist_list) >= 2
    /\ hist_list[1].age = hist_dur
    /\ hist_list[Len(hist_list)].age = 0

\* C20: after every analysis pass the history is not empty, its last entry is
\* the spectrum of the pass, and the entries are in the order of their
\* timestamps; the average is that of the history, and with a window of 0 the
\* history holds the entry of the pass only and the average is its spectrum.
C20_HistoryAfterPass ==
    [][ PassStep
        => /\ Len(hist_list') >= 1
           /\ LastBuf.age = 0
           /\ LastBuf.ampl_list = live_ampl'
           /\ \A i \in 1..(Len(hist_list') - 1) :
                  hist_list'[i].age > hist_list'[i + 1].age
           /\ avg_ampl' = HistAverage(hist_list')
           /\ hist_dur = 0 => Len(hist_list') = 1 /\ avg_ampl' = live_ampl'
      ]_vars

\* a pass with a window of 0, after a pass with another spectrum
C20_Witness ==
    /\ hist_dur = 0
    /\ HasPlot(sent, "Avg")
    /\ Len(hist_list) = 1
    /\ avg_ampl = live_ampl
    /\ live_ampl = <<Whole(2), Whole(0), Whole(1)>>

----------------------------------------------------------------------------
(* The setters: change_start_freq, change_stop_freq, change_gain_db,       *)
(* change_sweep_points, change_hist_dur                                    *)
(*                                                                         *)
(* The data of a message is a text (the characters, one string each) or a  *)
(* number.                                                                 *)

Text(chars) == [kind |-> "text", chars |-> chars, val |-> 0]
Number(v) == [kind |-> "num", chars |-> <<>>, val |-> v]

Digits == {"0", "1", "2", "3", "4", "5", "6", "7", "8", "9"}
DigitVal(c) ==
    CASE c = "0" -> 0 [] c = "1" -> 1 [] c = "2" -> 2 [] c = "3" -> 3 [] c = "4" -> 4
      [] c = "5" -> 5 [] c = "6" -> 6 [] c = "7" -> 7 [] c = "8" -> 8 [] c = "9" -> 9

\* \d+
IsDigits(t) == Len(t) > 0 /\ \A i \in 1..Len(t) : t[i] \in Digits

\* re.search('^\d+(\.\d+)?$', t)
MatchesUnsigned(t) ==
    \/ IsDigits(t)
    \/ \E i \in 2..(Len(t) - 1) :
           /\ t[i] = "."
           /\ IsDigits(SubSeq(t, 1, i - 1))
           /\ IsDigits(SubSeq(t, i + 1, Len(t)))

\* re.search('^[+-]?\d+(\.\d+)?$', t)
MatchesSigned(t) ==
    /\ Len(t) > 0
    /\ IF t[1] \in {"+", "-"} THEN MatchesUnsigned(Tail(t)) ELSE MatchesUnsigned(t)

RECURSIVE DigitsVal(_)
DigitsVal(t) == IF Len(t) = 0 THEN 0
                ELSE 10 * DigitsVal(SubSeq(t, 1, Len(t) - 1)) + DigitVal(t[Len(t)])

RECURSIVE Pow10(_)
Pow10(k) == IF k = 0 THEN 1 ELSE 10 * Pow10(k - 1)

\* float(t) of a text that matches ^\d+(\.\d+)?$, as <<numerator, denominator>>
FloatOf(t) ==
    IF IsDigits(t) THEN Whole(DigitsVal(t))
    ELSE LET i == CHOOSE j \in 2..(Len(t) - 1) : t[j] = "."
         IN  Rat(DigitsVal(SubSeq(t, 1, i - 1) \o SubSeq(t, i + 1, Len(t))),
                 Pow10(Len(t) - i))

\* int(t) of a text: ValueError unless the text is an optional sign and digits
IntRaises(t) ==
    ~ (Len(t) > 0 /\ IsDigits(IF t[1] \in {"+", "-"} THEN Tail(t) ELSE t))
IntOf(t) ==
    IF t[1] = "-" THEN 0 - DigitsVal(Tail(t))
    ELSE IF t[1] = "+" THEN DigitsVal(Tail(t))
    ELSE DigitsVal(t)

\* the if / elif / else of a setter on a float <<numerator, denominator>>: a
\* float that is a whole number is kept as that number
ClampFloat(v, lo, hi) ==
    IF ~RatLess(Whole(lo), v) THEN lo
    ELSE IF ~RatLess(v, Whole(hi)) THEN hi
    ELSE IF v[2] = 1 THEN v[1] ELSE v

ClampNum(v, lo, hi) == IF v <= lo THEN lo ELSE IF v >= hi THEN hi ELSE v

\* what a frequency setter does with its data: "raise" (re.search of a
\* number: TypeError), "ignore" (no match) or "store"
FreqSetter(d) ==
    IF d.kind = "num" THEN "raise"
    ELSE IF MatchesUnsigned(d.chars) THEN "store"
    ELSE "ignore"

\* changeSweepPoints: int() of a text with a fraction raises ValueError
PointsSetter(d) ==
    IF d.kind = "num" THEN "raise"
    ELSE IF ~MatchesSigned(d.chars) THEN "ignore"
    ELSE IF IntRaises(d.chars) THEN "raise"
    ELSE "store"

\* changeGainDb, changeHistDur compare their data with the limits: TypeError
\* for a text
NumSetter(d) == IF d.kind = "num" THEN "store" ELSE "raise"

\* the rest of a handled setter message: the message that was handled, whether
\* it raised (then it is not acknowledged); nothing is sent
SetterDone(name, d, outcome) ==
    /\ call' = [fn |-> name, arg |-> d]
    /\ msg_error' = (msg_error \/ outcome = "raise")
    /\ sent' = <<>>
    /\ UNCHANGED <<flagVars, state, sweep_freq, settle_dur, hist_list, noiseVars,
                   delayVars, spikeVars, runSweepMeas, sweepVars, pc, snap, localVars,
                   timer_expiry, pulse_gen_TS, elapsed, stopped, budget, calVars,
                   live_ampl, avg_ampl, ana_error, result, extVars>>

\* change_start_freq: self.changeStartFreq(msg_data)
change_start_freq(msg_data) ==
    /\ IF FreqSetter(msg_data) = "store"
       THEN start_freq' = ClampFloat(FloatOf(msg_data.chars), C_FREQ_MIN, C_FREQ_MAX)
       ELSE UNCHANGED start_freq
    /\ UNCHANGED <<stop_freq, gain_db, sweep_points, hist_dur>>
    /\ SetterDone("change_start_freq", msg_data, FreqSetter(msg_data))

\* change_stop_freq: self.changeStopFreq(msg_data)
change_stop_freq(msg_data) ==
    /\ IF FreqSetter(msg_data) = "store"
       THEN stop_freq' = ClampFloat(FloatOf(msg_data.chars), C_FREQ_MIN, C_FREQ_MAX)
       ELSE UNCHANGED stop_freq
    /\ UNCHANGED <<start_freq, gain_db, sweep_points, hist_dur>>
    /\ SetterDone("change_stop_freq", msg_data, FreqSetter(msg_data))

\* change_gain_db: self.changeGainDb(msg_data)
change_gain_db(msg_data) ==
    /\ IF NumSetter(msg_data) = "store"
       THEN gain_db' = ClampNum(msg_data.val, C_GAIN_MIN_DB, C_GAIN_MAX_DB)
       ELSE UNCHANGED gain_db
    /\ UNCHANGED <<start_freq, stop_freq, sweep_points, hist_dur>>
    /\ SetterDone("change_gain_db", msg_data, NumSetter(msg_data))

\* change_sweep_points: self.changeSweepPoints(msg_data)
change_sweep_points(msg_data) ==
    /\ IF PointsSetter(msg_data) = "store"
       THEN sweep_points' = ClampNum(IntOf(msg_data.chars),
                                     C_SWEEP_POINTS_MIN, C_SWEEP_POINTS_MAX)
       ELSE UNCHANGED sweep_points
    /\ UNCHANGED <<start_freq, stop_freq, gain_db, hist_dur>>
    /\ SetterDone("change_sweep_points", msg_data, PointsSetter(msg_data))

\* change_hist_dur with any data: self.changeHistDur(msg_data)
change_hist_dur_data(msg_data) ==
    /\ IF NumSetter(msg_data) = "store"
       THEN hist_dur' = ClampHistDur(msg_data.val)
       ELSE UNCHANGED hist_dur
    /\ UNCHANGED <<start_freq, stop_freq, gain_db, sweep_points>>
    /\ SetterDone("change_hist_dur", msg_data, NumSetter(msg_data))

\* the texts and numbers the setters are given
SetterTexts ==
    {Text(<<"1", "0", "0", "0">>), Text(<<"1", "0", ".", "5">>),
     Text(<<"2", "5", "0", "0", "0">>), Text(<<"-", "5">>), Text(<<"a", "b", "c">>)}
SetterNumbers == {Number(0 - 10), Number(100), Number(250)}
SetterData == SetterTexts \cup SetterNumbers

SetterNext ==
    \/ \E d \in SetterData : change_start_freq(d)
    \/ \E d \in SetterData : change_stop_freq(d)
    \/ \E d \in SetterData : change_gain_db(d)
    \/ \E d \in SetterData : change_sweep_points(d)
    \/ \E d \in SetterData : change_hist_dur_data(d)

SetterSpec == Init /\ [][SetterNext]_vars

\* a text that denotes a decimal number, a text that denotes an integer
IsDecimalText(d) == d.kind = "text" /\ MatchesSigned(d.chars)
IsIntegerText(d) == d.kind = "text" /\ ~IntRaises(d.chars)
DecimalValue(d) ==
    IF d.chars[1] = "-"
    THEN LET v == FloatOf(Tail(d.chars)) IN <<0 - v[1], v[2]>>
    ELSE IF d.chars[1] = "+" THEN FloatOf(Tail(d.chars))
    ELSE FloatOf(d.chars)

\* the last step handled the setter message name
Handled(name) == call'.fn = name
OtherStateKept ==
    UNCHANGED <<flagVars, state, sweep_freq, settle_dur, hist_list, noiseVars, delayVars,
                spikeVars, runSweepMeas, sweepVars, pc, snap, localVars, timer_expiry,
                pulse_gen_TS, elapsed, stopped, budget, calVars, live_ampl, avg_ampl>>

\* C21: whatever setter messages with numeric data are handled, the
\* frequencies stay in [50, 20000], the gain in [0, 200], the sweep points in
\* [1, 100] and the history window in [0, 10]; a setter stores a value inside
\* the range as it is, a value below the range as the minimum and a value
\* above it as the maximum, and changes no other field.
C21_SettersClamp ==
    [][ /\ start_freq' >= C_FREQ_MIN /\ start_freq' <= C_FREQ_MAX
        /\ stop_freq' >= C_FREQ_MIN /\ stop_freq' <= C_FREQ_MAX
        /\ gain_db' >= C_GAIN_MIN_DB /\ gain_db' <= C_GAIN_MAX_DB
        /\ sweep_points' >= C_SWEEP_POINTS_MIN /\ sweep_points' <= C_SWEEP_POINTS_MAX
        /\ hist_dur' >= C_HIST_DUR_MIN /\ hist_dur' <= C_HIST_DUR_MAX
        /\ (Handled("change_start_freq") /\ IsDecimalText(call'.arg))
           => /\ start_freq' = ClampFloat(DecimalValue(call'.arg), C_FREQ_MIN, C_FREQ_MAX)
              /\ UNCHANGED <<stop_freq, gain_db, sweep_points, hist_dur>>
        /\ (Handled("change_stop_freq") /\ IsDecimalText(call'.arg))
           => /\ stop_freq' = ClampFloat(DecimalValue(call'.arg), C_FREQ_MIN, C_FREQ_MAX)
              /\ UNCHANGED <<start_freq, gain_db, sweep_points, hist_dur>>
        /\ (Handled("change_gain_db") /\ call'.arg.kind = "num")
           => /\ gain_db' = ClampNum(call'.arg.val, C_GAIN_MIN_DB, C_GAIN_MAX_DB)
              /\ UNCHANGED <<start_freq, stop_freq, sweep_points, hist_dur>>
        /\ (Handled("change_sweep_points") /\ IsIntegerText(call'.arg))
           => /\ sweep_points' = ClampNum(IntOf(call'.arg.chars),
                                          C_SWEEP_POINTS_MIN, C_SWEEP_POINTS_MAX)
              /\ UNCHANGED <<start_freq, stop_freq, gain_db, hist_dur>>
        /\ (Handled("change_hist_dur") /\ call'.arg.kind = "num")
           => /\ hist_dur' = ClampNum(call'.arg.val, C_HIST_DUR_MIN, C_HIST_DUR_MAX)
              /\ UNCHANGED <<start_freq, stop_freq, gain_db, sweep_points>>
        /\ OtherStateKept
      ]_vars

\* data that is not a valid number for the setter name
InvalidFor(name, d) ==
    /\ d.kind = "text"
    /\ IF name = "change_sweep_points" THEN IntRaises(d.chars) ELSE ~MatchesSigned(d.chars)

\* C22: a setter given data that is not a valid number (a text that is not
\* numeric; for the sweep points also a text that is not an integer, such as
\* "10.5") ignores it: the stored value and all other state are as before and
\* the message handler raises no error.
C22_InvalidIgnored ==
    [][ InvalidFor(call'.fn, call'.arg)
        => /\ UNCHANGED <<start_freq, stop_freq, gain_db, sweep_points, hist_dur>>
           /\ OtherStateKept
           /\ ~msg_error'
      ]_vars

----------------------------------------------------------------------------
(* Buffers the analysis pass has no spectrum for: fewer than 2 samples, or  *)
(* a sample period that is not positive                                    *)

\* the buffer of a mic_data message: its number of samples and its sample
\* period t_samp = time_list[1] - time_list[0] (a float) [s]
BufSamples == {0, 1, 2}
BufPeriods == {0 - 1, 0, 1}

\* the head of analyze raises: IndexError at time_list[1] for fewer than 2
\* samples, ZeroDivisionError in rfftfreq(num_samp, 0.0)
HeadRaises(n, t_samp) == n < 2 \/ t_samp = 0

\* mic_data with a buffer of n samples of period t_samp.  Nothing guards the
\* pass: it raises in its head (the message is not acknowledged), or runs as on
\* any buffer, with bufDuration = num_samp * t_samp.  A buffer with a negative
\* period has a frequency grid of its own: it is analyzed with no other buffer
\* in the history.
ShapedMicData ==
    \E n \in BufSamples, t_samp \in BufPeriods :
        IF HeadRaises(n, t_samp)
        THEN /\ ana_error' = TRUE
             /\ sent' = <<>>
             /\ UNCHANGED <<flagVars, state, cfgVars, sweep_freq, settle_dur, hist_list,
                            noiseVars, delayVars, spikeVars, runSweepMeas, sweepVars,
                            pc, snap, localVars, timer_expiry, pulse_gen_TS, elapsed,
                            stopped, budget, calVars, live_ampl, avg_ampl, fnVars, extVars>>
        ELSE /\ hist_clean(hist_list, hist_dur) = <<>>
             /\ \E p \in PowerDbs, ts \in SpikeTS, sp \in CalSpectra :
                    analyze((n \div 2) * t_samp, 0, FreqNeg, FALSE, p, ts, 1, sp)

\* the buffers of the microphone reader, while no buffer with a grid of its
\* own is in the history
BufMicData ==
    /\ \A i \in 1..Len(hist_list) : hist_list[i].bufDuration > 0
    /\ MicBuffer(HistMaxHist, CalSpectra)

BufNext ==
    \/ ShapedMicData
    \/ BufMicData
    \/ HistAdvance

BufSpec == Init /\ [][BufNext]_vars

\* the last step handled a buffer of fewer than 2 samples or of a period <= 0
DegenerateHandled ==
    \/ PassRaised
    \/ PassStep /\ LastBuf.bufDuration <= 0

\* C23: an analysis pass given a buffer of fewer than 2 samples or of a sample
\* period <= 0 is skipped: it adds no history entry, sends no plot_data,
\* changes no noise, delay or sweep counter, and raises no error.
C23_DegenerateSkipped ==
    [][ DegenerateHandled
        => /\ hist_list' = hist_list
           /\ ~HasPlot(sent', "Live") /\ ~HasPlot(sent', "Avg") /\ ~HasPlot(sent', "Sweep")
           /\ UNCHANGED <<measNoiseCnt, measDelaysCnt, sweepCnt>>
           /\ ~ana_error'
      ]_vars

----------------------------------------------------------------------------
(* Sweeps of 1, 2 and 3 points between frequencies set before the sweep    *)

TonePoints == {Text(<<"1">>), Text(<<"2">>), Text(<<"3">>)}
ToneStarts == {Text(<<"2", "5", "0", "0", "0">>)}
ToneStops == {Text(<<"1", "0", "0", "0">>)}

\* the GUI sets the frequencies and the points, then requests the sweep
ToneSetters ==
    /\ budget = MaxBudget
    /\ \/ \E d \in TonePoints : change_sweep_points(d)
       \/ \E d \in ToneStarts : change_start_freq(d)
       \/ \E d \in ToneStops : change_stop_freq(d)

\* the iterations of run() while no stop is requested
ToneTick ==
    \/ TickIdle
    \/ TickStartSettle
    \/ TickNoiseInit
    \/ TickNoiseMeas
    \/ TickDelayInit
    \/ TickDelayArmDetect
    \/ TickDelayGenPulse
    \/ TickDelayMeasEval
    \/ TickDelayMeasWait
    \/ TickSweepInit
    \/ TickSweepGenTone
    \/ TickSweepMeas

ToneNext ==
    \/ ToneSetters
    \/ TickSnapshot
    \/ ToneTick
    \/ Advance
    \/ measure_sweep(TRUE)
    \/ MicData
    \/ GoodSweepBuffer

ToneSpec == Init /\ [][ToneNext]_vars

\* the exponent k / (N - 1) of a tone of the sweep from start_freq to stop_freq
ToneExp(f) ==
    IF f[1] = f[2] THEN (IF f[1] = stop_freq /\ start_freq # stop_freq THEN Whole(1)
                         ELSE Whole(0))
    ELSE <<f[3], f[4]>>
ToneInRange(f) ==
    IF f[1] = f[2] THEN start_freq <= f[1] /\ f[1] <= stop_freq
    ELSE f[1] = start_freq /\ f[2] = stop_freq /\ 0 <= f[3] /\ f[3] <= f[4]

\* run() leaves SWEEP_GEN_TONE (or ends there)
ToneStep == state = "SWEEP_GEN_TONE" /\ pc = "step" /\ pc' # "step"

\* C24: for every number of sweep points in 1..100 the tone number k of a sweep
\* is start * (stop / start) ** (k / (N - 1)), with start <= stop after
\* SWEEP_INIT: the first tone is start_freq, the tones never decrease, none is
\* outside [start_freq, stop_freq], and computing a tone never fails.
C24_SweepTones ==
    [][ ToneStep
        => /\ pc' # "crashed"
           /\ start_freq <= stop_freq
           /\ sweep_freq' = GeoFreq(start_freq, stop_freq, sweep_freq_cnt, sweep_points - 1)
           /\ HasMsg(sent', "Gen", "play_tone")
           /\ sweep_freq_cnt = 0 => sweep_freq' = Hz(start_freq)
           /\ sweep_freq_cnt > 0 => ~RatLess(ToneExp(sweep_freq'), ToneExp(sweep_freq))
           /\ ToneInRange(sweep_freq')
      ]_vars

----------------------------------------------------------------------------
(* The tone detector and the power in the band of the tone, as functions   *)
(* of the amplitude spectrum (DC removed; bin i of 1..Len is at i * binw), *)
(* the expected frequency and the bin width distBtwnFreq                   *)

\* the function of the call returns: nothing else changes
Return(fn, value) ==
    /\ call.fn = fn
    /\ result = NoResult
    /\ result' = value
    /\ UNCHANGED <<flagVars, state, cfgVars, sweep_freq, settle_dur, hist_list, noiseVars,
                   delayVars, spikeVars, runSweepMeas, sweepVars, pc, snap, localVars,
                   timer_expiry, sent, pulse_gen_TS, elapsed, stopped, budget, calVars,
                   live_ampl, avg_ampl, ana_error, msg_error, call, extVars>>

\* the sum of the first n elements of a list of integers
RECURSIVE IntSum(_, _)
IntSum(l, n) == IF n = 0 THEN 0 ELSE l[n] + IntSum(l, n - 1)

\* np.convolve(a, a): element m of 1..2 * Len(a) - 1
ConvAt(a, m) ==
    IntSum([i \in 1..Len(a) |->
               IF m + 1 - i >= 1 /\ m + 1 - i <= Len(a) THEN a[i] * a[m + 1 - i] ELSE 0],
          Len(a))
Convolve(a) == [m \in 1..(2 * Len(a) - 1) |-> ConvAt(a, m)]

\* np.argmax: the index, from 0, of the first of the largest elements
ArgMax(s) ==
    (CHOOSE m \in 1..Len(s) :
         /\ \A j \in 1..Len(s) : s[j] <= s[m]
         /\ \A j \in 1..(m - 1) : s[j] < s[m]) - 1

\* (variant: the detected frequency is (max_ind / 2) * distBtwnFreq)
DetFreq2NoOffset(a, binw) == ArgMax(Convolve(a)) * binw

\* 2 * det_freq = 2 * ((max_ind / 2) + 1) * distBtwnFreq
DetFreq2(a, binw) == (ArgMax(Convolve(a)) + 2) * binw

\* abs(det_freq - currSweepFreq) < (distBtwnFreq / 4)
Found(a, e, binw) == Abs(2 * DetFreq2(a, binw) - 4 * e) < binw

\* the spectra (4 bins), bin widths [Hz] and expected frequencies [Hz] the
\* detector is applied to: every spectrum of amplitudes 0, 1, 2 and every
\* expected frequency up to one bin above the spectrum
DetBins == 4
DetAmpls == 0..2
DetSpectra == [1..DetBins -> DetAmpls]
DetBinWidths == {4, 6}
DetMaxFreq == 28
DetCalls ==
    {[fn |-> "detect", ampl_list |-> a, currSweepFreq |-> e, distBtwnFreq |-> w] :
         a \in DetSpectra, e \in 1..DetMaxFreq, w \in DetBinWidths}

DetInit == \E c \in DetCalls : Constructed(c)

\* lines 465-470 of analyze: <<2 * det_freq, foundSweepFreq is set>>
Detect ==
    Return("detect", <<"returned", DetFreq2(call.ampl_list, call.distBtwnFreq),
                       Found(call.ampl_list, call.currSweepFreq, call.distBtwnFreq)>>)

DetSpec == DetInit /\ [][Detect]_vars

\* the energy of the spectrum a is in the single bin at the frequency f
SingleBin(a, f, binw) ==
    \E j \in 1..Len(a) : /\ f = j * binw
                         /\ a[j] > 0
                         /\ \A i \in 1..Len(a) : i # j => a[i] = 0

\* the index, from 1, of the first of the largest elements of a sequence
FirstMax(s) ==
    CHOOSE m \in 1..Len(s) : /\ \A j \in 1..Len(s) : s[j] <= s[m]
                             /\ \A j \in 1..(m - 1) : s[j] < s[m]

\* C25: the detected frequency is ((index of the maximum of the magnitudes
\* convolved with themselves) / 2 + 1) * bin width, and the detector reports
\* found exactly when |detected - expected| < bin width / 4; for a spectrum
\* whose energy is in the single bin at f, found is true when expected = f and
\* false when the energy is in the bin at 1.5 * expected.
C25_Detector ==
    (call.fn = "detect" /\ result # NoResult)
    => LET a == call.ampl_list
           e == call.currSweepFreq
           w == call.distBtwnFreq
           max_ind == FirstMax(Convolve(a)) - 1
       IN  /\ result[2] = (max_ind + 2) * w
           /\ result[3] = (Abs(2 * result[2] - 4 * e) < w)
           /\ SingleBin(a, e, w) => result[3]
           /\ (\E f \in 1..(DetBins * w) : 2 * f = 3 * e /\ SingleBin(a, f, w)) => ~result[3]

\* the detector finds the tone of a single-bin spectrum
C25_Witness ==
    /\ call.fn = "detect" /\ result # NoResult
    /\ SingleBin(call.ampl_list, call.currSweepFreq, call.distBtwnFreq)
    /\ call.currSweepFreq = 12 /\ call.distBtwnFreq = 4
    /\ result[3]

\* the detector does not find a tone whose energy is in the bin at 1.5 times it
C25_WitnessOther ==
    /\ call.fn = "detect" /\ result # NoResult
    /\ call.currSweepFreq = 8 /\ call.distBtwnFreq = 4
    /\ SingleBin(call.ampl_list, 12, 4)
    /\ ~result[3]

\* currSweepFreqInd = int(currSweepFreq / distBtwnFreq) - 1, an index from 0
BoiIndex(e, binw) == (e \div binw) - 1

\* ampl_list[ind] of Python: an index below 0 counts from the end, an index
\* outside -Len..Len - 1 raises IndexError
ItemRaises(a, ind) == ind >= Len(a) \/ ind < 0 - Len(a)
Item(a, ind) == IF ind < 0 THEN a[Len(a) + ind + 1] ELSE a[ind + 1]

\* lines 447-457 of analyze: powerInBOI, the sum of ampl_list[ind] ** 2 over
\* range(currSweepFreqInd - 1, currSweepFreqInd + 2)
PowerInBOI(a, e, binw) ==
    LET c == BoiIndex(e, binw)
    IN  IF \E ind \in (c - 1)..(c + 1) : ItemRaises(a, ind)
        THEN <<"raised">>
        ELSE <<"returned", Item(a, c - 1) * Item(a, c - 1) + Item(a, c) * Item(a, c)
                           + Item(a, c + 1) * Item(a, c + 1)>>

\* spectra of 5 bins whose sums of squares tell the bins that were added
BoiSpectra == {<<1, 2, 4, 8, 16>>, <<16, 8, 4, 2, 1>>}
BoiMaxFreq == 32
BoiCalls ==
    {[fn |-> "power_in_boi", ampl_list |-> a, currSweepFreq |-> e, distBtwnFreq |-> w] :
         a \in BoiSpectra, e \in 1..BoiMaxFreq, w \in DetBinWidths}

BoiInit == \E c \in BoiCalls : Constructed(c)

BandPower ==
    Return("power_in_boi",
           PowerInBOI(call.ampl_list, call.currSweepFreq, call.distBtwnFreq))

BoiSpec == BoiInit /\ [][BandPower]_vars

\* bin j of 1..Len(a) is a bin nearest the frequency e
NearestBin(a, j, e, binw) == \A i \in 1..Len(a) : Abs(j * binw - e) <= Abs(i * binw - e)

\* C26: the power in the band of the expected frequency is the sum of the
\* squared magnitudes of exactly 3 bins, the bin nearest the expected frequency
\* and its two neighbours, and the 3 indices are inside the spectrum (no wrap to
\* its other end, none past its end) for every expected frequency it covers.
C26_PowerInBand ==
    (/\ call.fn = "power_in_boi" /\ result # NoResult
     /\ call.distBtwnFreq <= call.currSweepFreq
     /\ call.currSweepFreq <= Len(call.ampl_list) * call.distBtwnFreq)
    => LET a == call.ampl_list
       IN  /\ result[1] = "returned"
           /\ \E j \in 2..(Len(a) - 1) :
                  /\ NearestBin(a, j, call.currSweepFreq, call.distBtwnFreq)
                  /\ result[2] = a[j - 1] * a[j - 1] + a[j] * a[j] + a[j + 1] * a[j + 1]

----------------------------------------------------------------------------
(* refreq_ampl as a function of a reference curve and the new frequencies   *)

\* reference curves of 2 or 3 points: frequencies that increase, amplitudes at
\* or above the floor of the clip, and one below it (all as logarithms)
RefMaxLen == 3
RefFreqVals == {Whole(0), Whole(1), Whole(2), Whole(3)}
RefAmplVals == {Whole(C_CLIP_LOG2 - 10), Whole(C_CLIP_LOG2), Whole(0), Whole(3)}
Increasing(l) == \A i \in 1..(Len(l) - 1) : RatLess(l[i], l[i + 1])
RefFreqLists ==
    {l \in UNION {[1..n -> RefFreqVals] : n \in 2..RefMaxLen} : Increasing(l)}
RefCalls ==
    UNION {{[fn |-> "refreq_ampl", ref_freq_list |-> f, ref_ampl_list |-> a,
             new_freq_list |-> x] :
                a \in [1..Len(f) -> RefAmplVals], x \in {f, LiveFreqs, <<Whole(1)>>}} :
           f \in RefFreqLists}

RefInit == \E c \in RefCalls : Constructed(c)

Refreq ==
    Return("refreq_ampl",
           <<"returned", refreq_ampl(call.ref_freq_list, call.ref_ampl_list,
                                     call.new_freq_list)>>)

RefSpec == RefInit /\ [][Refreq]_vars

AtLeastFloor(l) == \A i \in 1..Len(l) : ~RatLess(l[i], Whole(C_CLIP_LOG2))

\* C27: refreq_ampl returns exactly one magnitude for each target frequency,
\* and resampling a reference curve (at least 2 points, strictly increasing
\* frequencies, magnitudes at or above the floor 1e-12) onto its own
\* frequency grid returns the magnitudes of the curve.
C27_RefreqOwnGrid ==
    (call.fn = "refreq_ampl" /\ result # NoResult)
    => /\ Len(result[2]) = Len(call.new_freq_list)
       /\ (/\ call.new_freq_list = call.ref_freq_list
           /\ AtLeastFloor(call.ref_ampl_list))
          => result[2] = call.ref_ampl_list

\* a curve of 3 points with different magnitudes, resampled onto its own grid
C27_Witness ==
    /\ call.fn = "refreq_ampl" /\ result # NoResult
    /\ call.new_freq_list = call.ref_freq_list
    /\ call.ref_ampl_list = <<Whole(0), Whole(3), Whole(C_CLIP_LOG2)>>
    /\ result[2] = call.ref_ampl_list

----------------------------------------------------------------------------
(* The average of the history, with spectra that have bins below the floor *)
(* of the clip (the spectrum of silence is 0 in every bin)                 *)

AvgSpectra ==
    {<<Whole(2), Whole(0), Whole(1)>>,
     <<Whole(C_CLIP_LOG2 - 10), Whole(0), Whole(C_CLIP_LOG2)>>,
     <<Whole(C_CLIP_LOG2 - 10), Whole(C_CLIP_LOG2 - 10), Whole(C_CLIP_LOG2 - 10)>>}

AvgMicData == MicBuffer(HistMaxHist, AvgSpectra)

AvgNext ==
    \/ AvgMicData
    \/ HistAdvance

AvgSpec == Init /\ [][AvgNext]_vars

\* every entry of the history h holds the spectrum s
AllEntries(h, s) == \A i \in 1..Len(h) : h[i].ampl_list = s

\* C28: the average of the history is the mean, bin by bin, of the logarithms
\* of the entries: for a history of N identical spectra on the same grid (N = 1
\* included) the average is that spectrum.
C28_AverageOfIdentical ==
    [][ (PassStep /\ AllEntries(hist_list', live_ampl')) => avg_ampl' = live_ampl' ]_vars

\* C28 as the code has it: the logarithm is taken of the magnitude clipped to
\* the floor 1e-12, so the average of N identical spectra is that spectrum
\* with every bin below the floor raised to the floor.
C28_AverageOfIdenticalClipped ==
    [][ (PassStep /\ AllEntries(hist_list', live_ampl'))
        => /\ avg_ampl' = ClipLogList(live_ampl')
           /\ AtLeastFloor(live_ampl') => avg_ampl' = live_ampl'
      ]_vars

\* two identical spectra with a bin below the floor are in the history
C28_Witness ==
    /\ HasPlot(sent, "Avg")
    /\ Len(hist_list) >= 2
    /\ AllEntries(hist_list, live_ampl)
    /\ live_ampl = <<Whole(C_CLIP_LOG2 - 10), Whole(0), Whole(C_CLIP_LOG2)>>
    /\ avg_ampl = <<Whole(C_CLIP_LOG2), Whole(0), Whole(C_CLIP_LOG2)>>

----------------------------------------------------------------------------
(* A delay measurement in a quiet room: no buffer is loud enough for the    *)
(* spike detector, every pulse times out                                   *)

\* mic_data of a buffer as quiet as the noise that was measured
QuietMicData ==
    /\ BufferDue(MaxHist)
    /\ \E ts \in SpikeTS, d \in BufDurations, sp \in RawSpectra :
           analyze(d, 0, FreqNeg, FALSE, 0 - 20, ts, 1, sp)

\* the iterations of run() of such a measurement
QuietTick ==
    \/ TickIdle
    \/ TickStartSettle
    \/ TickNoiseInit
    \/ TickNoiseMeas
    \/ TickDelayInit
    \/ TickDelayArmDetect
    \/ TickDelayGenPulse
    \/ TickDelayMeasWait

QuietNext ==
    \/ TickSnapshot
    \/ QuietTick
    \/ Advance
    \/ measure_delay(TRUE)
    \/ QuietMicData

QuietSpec == Init /\ [][QuietNext]_vars

\* DELAY_MEAS timed out and the pulse is tried again
TimeoutRetried == state = "DELAY_MEAS" /\ state' = "DELAY_ARM_DETECT"

\* C29: a pulse that keeps timing out in DELAY_MEAS is retried at most 5 times:
\* after 5 retries of the same point the next timeout gives up.
C29_AtMostFiveRetries ==
    [][ TimeoutRetried => (retry_cnt < C_MAX_TIMEOUT_RETRY /\ retry_cnt' <= C_MAX_TIMEOUT_RETRY)
      ]_vars

----------------------------------------------------------------------------
(* The pulse of the delay measurement                                      *)

\* the last step commanded a pulse
PulseCommanded == HasMsg(sent', "Gen", "gen_pulse")

\* C30: a gen_pulse is sent only from DELAY_GEN_PULSE, which is entered from
\* DELAY_ARM_DETECT by arming the spike detector (runDelayMeas = TRUE) and
\* starting a wait of 1 s, and only when that wait is over; the time-out of 4 s
\* of DELAY_MEAS starts with the pulse; between the arming and the pulse only an
\* analysis pass that finds a spike disarms the detector, the state machine
\* does not.
C30_PulseAfterArming ==
    [][ /\ (state' = "DELAY_GEN_PULSE" /\ state # "DELAY_GEN_PULSE")
           => /\ state = "DELAY_ARM_DETECT"
              /\ runDelayMeas'
              /\ timer_expiry' = C_ARM_WAIT_S /\ elapsed' = 0
        /\ PulseCommanded
           => /\ state = "DELAY_GEN_PULSE"
              /\ timer_expiry = 0 /\ elapsed >= C_ARM_WAIT_S
              /\ state' = "DELAY_MEAS"
              /\ timer_expiry' = C_PULSE_TIMEOUT_S /\ elapsed' = 0
              /\ runDelayMeas' = runDelayMeas
        /\ (state = "DELAY_GEN_PULSE" /\ runDelayMeas /\ ~runDelayMeas')
           => PassStep /\ measDelaySpike_TS' # None
      ]_vars

\* a pulse was commanded with the detector armed; its time-out runs
C30_Witness ==
    /\ HasMsg(sent, "Gen", "gen_pulse")
    /\ state = "DELAY_MEAS"
    /\ runDelayMeas
    /\ timer_expiry = C_PULSE_TIMEOUT_S /\ elapsed = 0

\* a pulse was commanded after a loud buffer had disarmed the detector
C30_DisarmedByPass ==
    /\ HasMsg(sent, "Gen", "gen_pulse")
    /\ state = "DELAY_MEAS"
    /\ ~runDelayMeas

----------------------------------------------------------------------------
(* The stages of a run that a sweep goes through                           *)

\* the iterations of run() while a request is pending
ArriveTick ==
    \/ TickIdle
    \/ TickStartSettle
    \/ TickNoiseInit
    \/ TickNoiseMeas
    \/ TickDelayInit
    \/ TickDelayArmDetect
    \/ TickDelayGenPulse
    \/ TickDelayMeasEval
    \/ TickDelayMeasWait
    \/ TickSweepInit
    \/ TickSweepGenTone
    \/ TickSweepMeas

\* requests arrive at any moment and none is withdrawn
ArriveNext ==
    \/ TickSnapshot
    \/ ArriveTick
    \/ Advance
    \/ measure_sweep(TRUE)
    \/ measure_delay(TRUE)
    \/ measure_noise(TRUE)
    \/ MicData
    \/ MicDataSweep

ArriveSpec == Init /\ [][ArriveNext]_vars

\* this step commands a sweep tone
ToneCommanded ==
    \E i \in 1..Len(sent') : IsMsg(sent'[i], "Gen", "play_tone") /\ FreqPos(sent'[i][3])

\* C31: a sweep tone is commanded from the sweep stages only, the sweep stages
\* are entered only by the step that finishes the delay measurement of the run,
\* and the delay stages only by the step that finishes its noise measurement,
\* whenever the sweep request has arrived.
C31_SweepAfterNoiseAndDelay ==
    [][ /\ ToneCommanded => state = "SWEEP_GEN_TONE"
        /\ (state' \in SweepStates /\ state \notin SweepStates)
           => state = "DELAY_MEAS"
        /\ (state' = "DELAY_INIT" /\ state # "DELAY_INIT")
           => state = "NOISE_MEAS"
      ]_vars

----------------------------------------------------------------------------
(* A sweep after a sweep                                                   *)

\* an iteration of run() starts a sweep while the points of the sweep before
\* it are still stored (no clear_sweep, no stop since)
SecondSweepStarts ==
    /\ state = "SWEEP_INIT" /\ pc = "step" /\ snap.sweep
    /\ ~runSweepMeas
    /\ sweepCnt = sweep_points
    /\ start_freq # stop_freq /\ sweep_points >= 2
    /\ settle_dur # NaN                 \* the delay measurement did not give up

\* C32: with good buffers during every tone and fair scheduling, a sweep that
\* starts after a finished sweep, with no clear_sweep and no stop in between,
\* leads (unless a stop is requested) to sweep_finished being sent again.
C32_SecondSweepCompletes ==
    SecondSweepStarts ~> (HasMsg(sent, "Guido", "sweep_finished") \/ stopped)

----------------------------------------------------------------------------
(* The sweep arrays and the number of sweep points                         *)

PointsTexts == {Text(<<"2">>), Text(<<"3">>)}

\* the number of points changes, the points are cleared, sweeps are requested
\* and stopped, in any order
PointsNext ==
    \/ \E d \in PointsTexts : change_sweep_points(d)
    \/ clear_sweep
    \/ measure_stop
    \/ measure_sweep(TRUE)
    \/ TickSnapshot
    \/ TickStep
    \/ Advance
    \/ MicData
    \/ GoodSweepBuffer

PointsSpec == Init /\ [][PointsNext]_vars

\* this analysis pass has a point to store at an index the arrays do not have:
\* it ends in an IndexError at self.sweepFreqs[k], after the plots of the buffer
IndexRaised == ana_error' /\ HasPlot(sent', "Live")

\* C33: for any order of change_sweep_points, clear_sweep, stop and sweep
\* requests, no analysis pass uses an index k < sweep_points that the arrays
\* sweepFreqs / sweepAmpls do not have.
C33_IndexWithinArrays ==
    [][ /\ ~IndexRaised
        /\ (PassStep /\ PointStored) => sweepCnt < Len(sweepFreqs)
      ]_vars

----------------------------------------------------------------------------
(* A sweep after a delay measurement that gave up                          *)

\* an iteration of run() starts the sweep of a run whose delay measurement
\* gave up (not all its samples were collected); no point is stored yet
SweepAfterGiveUp ==
    /\ state = "SWEEP_INIT" /\ pc = "step" /\ snap.sweep
    /\ ~runSweepMeas
    /\ measDelaysCnt < DelayPoints
    /\ sweepCnt = 0
    /\ start_freq # stop_freq /\ sweep_points >= 2

\* C34: with good buffers during every tone and fair scheduling, the sweep that
\* follows a delay measurement that gave up leads (unless a stop is requested)
\* to sweep_finished being sent, the settle duration being a number.
C34_SweepAfterGiveUpFinishes ==
    SweepAfterGiveUp
        ~> ((HasMsg(sent, "Guido", "sweep_finished") /\ settle_dur # NaN) \/ stopped)

----------------------------------------------------------------------------
(* The finished events of a run                                            *)

\* the finished events among the messages s
Finished(s) ==
    Count(s, "Guido", "sweep_finished") + Count(s, "Guido", "delay_finished")
        + Count(s, "Guido", "noise_finished")

\* this step ends a run: the state machine returns to IDLE
RunEnds == state # "IDLE" /\ state' = "IDLE"

----------------------------------------------------------------------------
(* BufferManager (src/BufferManager.py): the pool of message buffers and   *)
(* the exchange of messages.  The sending threads are the run() loops of   *)
(* the analyzer and of the microphone reader; their messages are delivered *)
(* one after another to msgHandler by the event loop of the receiving      *)
(* thread.  Slot i of the model is g_buf_pool_list[i - 1]; a message type  *)
(* is the tuple of its characters.                                         *)

\* what the analyzer and the other objects are left with
AnaFrame ==
    UNCHANGED <<flagVars, state, cfgVars, sweep_freq, settle_dur, hist_list, noiseVars,
                delayVars, spikeVars, runSweepMeas, sweepVars, pc, snap, localVars,
                timer_expiry, sent, pulse_gen_TS, elapsed, stopped, budget, calVars,
                live_ampl, avg_ampl, ana_error, fnVars, genVars>>

\* msg_type[:3] == "REQ"
IsReq(msg_type) == Len(msg_type) >= 3 /\ SubSeq(msg_type, 1, 3) = <<"R", "E", "Q">>

\* "ACK" + msg_type[3:]
AckType(msg_type) == <<"A", "C", "K">> \o SubSeq(msg_type, 4, Len(msg_type))

\* the types and the data of the messages the senders send
REQ_mode == <<"R", "E", "Q", "_", "m", "o", "d", "e">>
mic_data == <<"m", "i", "c", "_", "d", "a", "t", "a">>
MsgTypes == {REQ_mode, mic_data}
SendData(w) == IF w = "Ana" THEN Num(1) ELSE Num(2)

\* one step of the sender w, of the receiver
SndStep(w, from, frame) ==
    /\ snd[w].pc = from
    /\ snd' = [snd EXCEPT ![w] = frame]
RcvStep(from, frame) ==
    /\ rcv.pc = from
    /\ rcv' = frame

\* msgSend, up to the call of alloc: the message buffer is built, a request
\* gets a semaphore of its own, QSemaphore(0)
msgSend(w, msg_type, msg_data) ==
    /\ SndStep(w, "idle", [pc |-> "acquire", msg_type |-> msg_type, msg_data |-> msg_data,
                           buf_id |-> None, ret |-> None])
    /\ req_sem' = [req_sem EXCEPT ![w] = 0]
    /\ UNCHANGED <<g_buf_pool_list, g_sem, g_mutex, ipc_queue, rcv>>
    /\ AnaFrame

\* alloc: g_sem.acquire(1)
alloc_acquire(w) ==
    /\ g_sem > 0
    /\ g_sem' = g_sem - 1
    /\ SndStep(w, "acquire", [snd[w] EXCEPT !.pc = "lock"])
    /\ UNCHANGED <<g_buf_pool_list, g_mutex, req_sem, ipc_queue, rcv>>
    /\ AnaFrame

\* (variant: the lock is taken whoever holds it)
MutexFreeNever(holder) == TRUE

\* g_mutex.lock() returns when no thread holds the mutex
MutexFree(holder) == holder = "free"

alloc_lock(w) ==
    /\ MutexFree(g_mutex)
    /\ g_mutex' = w
    /\ SndStep(w, "lock", [snd[w] EXCEPT !.pc = "find"])
    /\ UNCHANGED <<g_buf_pool_list, g_sem, req_sem, ipc_queue, rcv>>
    /\ AnaFrame

\* the slots that hold None
EmptySlots == {i \in 1..BufCnt : g_buf_pool_list[i] = None}

\* alloc: the loop finds the first slot that holds None (buf_id stays None when
\* there is none)
alloc_find(w) ==
    /\ SndStep(w, "find",
               IF EmptySlots = {}
               THEN [snd[w] EXCEPT !.pc = "unlock"]
               ELSE [snd[w] EXCEPT !.pc = "store",
                                   !.buf_id = Num(CHOOSE i \in EmptySlots :
                                                     \A j \in EmptySlots : i <= j)])
    /\ UNCHANGED <<g_buf_pool_list, g_sem, g_mutex, req_sem, ipc_queue, rcv>>
    /\ AnaFrame

\* the message buffer [msg_type, self.name, msg_data, req_sem]
MsgBuf(w) ==
    [msg_type |-> snd[w].msg_type, name |-> w, msg_data |-> snd[w].msg_data,
     req_sem |-> IF IsReq(snd[w].msg_type) THEN w ELSE "None"]

\* alloc: g_buf_pool_list[ind] = buf
alloc_store(w) ==
    /\ SndStep(w, "store", [snd[w] EXCEPT !.pc = "unlock"])
    /\ g_buf_pool_list' = [g_buf_pool_list EXCEPT ![snd[w].buf_id[1]] = MsgBuf(w)]
    /\ UNCHANGED <<g_sem, g_mutex, req_sem, ipc_queue, rcv>>
    /\ AnaFrame

\* alloc: g_mutex.unlock(), return buf_id
alloc_unlock(w) ==
    /\ SndStep(w, "unlock", [snd[w] EXCEPT !.pc = "emit"])
    /\ g_mutex' = "free"
    /\ UNCHANGED <<g_buf_pool_list, g_sem, req_sem, ipc_queue, rcv>>
    /\ AnaFrame

\* msgSend: ipc_sig.emit(buf_id); a posted message returns True.  emit(None)
\* raises a TypeError (the signal carries an int).
msgSend_emit(w) ==
    /\ IF snd[w].buf_id = None
       THEN /\ SndStep(w, "emit", [snd[w] EXCEPT !.pc = "raised"])
            /\ UNCHANGED ipc_queue
       ELSE /\ ipc_queue' = Append(ipc_queue, snd[w].buf_id[1])
            /\ SndStep(w, "emit",
                       IF IsReq(snd[w].msg_type)
                       THEN [snd[w] EXCEPT !.pc = "wait"]
                       ELSE [snd[w] EXCEPT !.pc = "idle", !.ret = "True"])
    /\ UNCHANGED <<g_buf_pool_list, g_sem, g_mutex, req_sem, rcv>>
    /\ AnaFrame

\* (variant: the sender does not wait for the acknowledgment)
AcquiredAtOnce(permits) == TRUE

\* req_sem.acquire(1) returns when a permit is there
Acquired(permits) == permits > 0

\* msgSend of a request: req_sem.acquire(1)
msgSend_wait(w) ==
    /\ Acquired(req_sem[w])
    /\ req_sem' = [req_sem EXCEPT ![w] = Max2(0, @ - 1)]
    /\ SndStep(w, "wait", [snd[w] EXCEPT !.pc = "get"])
    /\ UNCHANGED <<g_buf_pool_list, g_sem, g_mutex, ipc_queue, rcv>>
    /\ AnaFrame

\* msgSend of a request: the ack data of the buffer is returned; the buffer
\* stays in its slot
msgSend_get(w) ==
    /\ SndStep(w, "get", [snd[w] EXCEPT !.pc = "idle",
                             !.ret = g_buf_pool_list[snd[w].buf_id[1]].msg_data])
    /\ UNCHANGED <<g_buf_pool_list, g_sem, g_mutex, req_sem, ipc_queue, rcv>>
    /\ AnaFrame

\* msgHandler: the next buffer id is delivered; msgReceive reads the message,
\* the handler answers a request with the data of the request (ack_data), and
\* msgAcknowledge reads the semaphore of the message
msgHandler ==
    /\ ipc_queue # <<>>
    /\ ipc_queue' = Tail(ipc_queue)
    /\ LET buf_id == Head(ipc_queue)
           msg_buf == g_buf_pool_list[buf_id]
       IN  RcvStep("idle",
                   IF msg_buf = None
                   THEN [RcvAtRest EXCEPT !.pc = "raised"]   \* None[:3]: TypeError
                   ELSE [pc |-> IF msg_buf.req_sem = "None" THEN "free_lock"
                                ELSE "set_lock",
                         buf_id |-> Num(buf_id),
                         ack_data |-> IF IsReq(msg_buf.msg_type) THEN msg_buf.msg_data
                                      ELSE None,
                         req_sem |-> msg_buf.req_sem])
    /\ UNCHANGED <<g_buf_pool_list, g_sem, g_mutex, req_sem, snd>>
    /\ AnaFrame

\* msgAcknowledge of a posted message: free(buf_id)
free_lock ==
    /\ MutexFree(g_mutex)
    /\ g_mutex' = "Rcv"
    /\ RcvStep("free_lock", [rcv EXCEPT !.pc = "free_clear"])
    /\ UNCHANGED <<g_buf_pool_list, g_sem, req_sem, ipc_queue, snd>>
    /\ AnaFrame

free_clear ==
    /\ RcvStep("free_clear", [rcv EXCEPT !.pc = "free_unlock"])
    /\ g_buf_pool_list' = [g_buf_pool_list EXCEPT ![rcv.buf_id[1]] = None]
    /\ UNCHANGED <<g_sem, g_mutex, req_sem, ipc_queue, snd>>
    /\ AnaFrame

free_unlock ==
    /\ RcvStep("free_unlock", [rcv EXCEPT !.pc = "free_release"])
    /\ g_mutex' = "free"
    /\ UNCHANGED <<g_buf_pool_list, g_sem, req_sem, ipc_queue, snd>>
    /\ AnaFrame

\* free: g_sem.release(1)
free_release ==
    /\ RcvStep("free_release", RcvAtRest)
    /\ g_sem' = g_sem + 1
    /\ UNCHANGED <<g_buf_pool_list, g_mutex, req_sem, ipc_queue, snd>>
    /\ AnaFrame

\* msgAcknowledge of a request: set(buf_id, ack_msg_buf), req_sem.release(1)
set_lock ==
    /\ MutexFree(g_mutex)
    /\ g_mutex' = "Rcv"
    /\ RcvStep("set_lock", [rcv EXCEPT !.pc = "set_store"])
    /\ UNCHANGED <<g_buf_pool_list, g_sem, req_sem, ipc_queue, snd>>
    /\ AnaFrame

\* ["ACK" + msg_type[3:], self.name, ack_data, None]
AckBuf(msg_buf, ack_data) ==
    [msg_type |-> AckType(msg_buf.msg_type), name |-> "Rcv", msg_data |-> ack_data,
     req_sem |-> "None"]

set_store ==
    /\ RcvStep("set_store", [rcv EXCEPT !.pc = "set_unlock"])
    /\ g_buf_pool_list' = [g_buf_pool_list EXCEPT ![rcv.buf_id[1]] = AckBuf(@, rcv.ack_data)]
    /\ UNCHANGED <<g_sem, g_mutex, req_sem, ipc_queue, snd>>
    /\ AnaFrame

set_unlock ==
    /\ RcvStep("set_unlock", [rcv EXCEPT !.pc = "set_release"])
    /\ g_mutex' = "free"
    /\ UNCHANGED <<g_buf_pool_list, g_sem, req_sem, ipc_queue, snd>>
    /\ AnaFrame

set_release ==
    /\ RcvStep("set_release", RcvAtRest)
    /\ req_sem' = [req_sem EXCEPT ![rcv.req_sem] = @ + 1]
    /\ UNCHANGED <<g_buf_pool_list, g_sem, g_mutex, ipc_queue, snd>>
    /\ AnaFrame

BufNextSnd(w) ==
    \/ \E t \in MsgTypes : msgSend(w, t, SendData(w))
    \/ alloc_acquire(w)
    \/ alloc_lock(w)
    \/ alloc_find(w)
    \/ alloc_store(w)
    \/ alloc_unlock(w)
    \/ msgSend_emit(w)
    \/ msgSend_wait(w)
    \/ msgSend_get(w)

PoolNext ==
    \/ \E w \in Senders : BufNextSnd(w)
    \/ msgHandler
    \/ free_lock
    \/ free_clear
    \/ free_unlock
    \/ free_release
    \/ set_lock
    \/ set_store
    \/ set_unlock
    \/ set_release

PoolSpec == Init /\ [][PoolNext]_vars

\* no message is in flight: no sender is in msgSend, nothing waits to be
\* delivered, the receiver is not in msgHandler
Quiescent ==
    /\ \A w \in Senders : snd[w].pc = "idle"
    /\ ipc_queue = <<>>
    /\ rcv.pc = "idle"

\* C37: when no message is in flight, every slot of the pool is free (it
\* holds None and its permit is back): the slot of a posted message is freed by
\* the acknowledgment, the slot of a request once the sender has read the reply.
C37_PoolFreeWhenQuiescent ==
    Quiescent => (g_sem = BufCnt /\ EmptySlots = 1..BufCnt)

\* the sender w takes this step of alloc
AllocStep(w, from) == snd[w].pc = from /\ snd'[w].pc # from

\* the senders that have a slot of their own: alloc has stored their message,
\* and msgSend has not returned
Holding == {w \in Senders : snd[w].pc \in {"unlock", "emit", "wait", "get"}}

\* C38: under any interleaving of the allocs of the senders and the frees of
\* the receiver, alloc stores its message in a slot that holds None and that no
\* other sender was given, alloc finds a slot (buf_id is not None), the permits
\* of g_sem never exceed the number of empty slots, and a caller gets past
\* g_sem.acquire only when not all slots are occupied.
C38_AllocFreeConsistent ==
    /\ [](/\ g_sem >= 0
          /\ g_sem <= Cardinality(EmptySlots)
          /\ \A v, w \in Holding : v # w => snd[v].buf_id # snd[w].buf_id)
    /\ [][ \A w \in Senders :
             /\ AllocStep(w, "find") => snd'[w].buf_id # None
             /\ AllocStep(w, "store") => g_buf_pool_list[snd[w].buf_id[1]] = None
             /\ AllocStep(w, "acquire") => EmptySlots # {}
         ]_vars

\* every slot is occupied and a caller waits in alloc, while the receiver is
\* in free
C38_Witness ==
    /\ EmptySlots = {} /\ g_sem = 0
    /\ \E w \in Senders : snd[w].pc = "acquire"
    /\ rcv.pc = "free_lock"

\* the sender w returns from msgSend
Returns(w) == snd[w].pc # "idle" /\ snd'[w].pc = "idle"

\* the receiver has acknowledged the request of w that is in slot i: the slot
\* holds the ACK buffer
Acknowledged(i) ==
    /\ g_buf_pool_list[i] # None
    /\ g_buf_pool_list[i].msg_type = AckType(REQ_mode)

\* C39: a msgSend of a REQ message returns only after the receiver has
\* acknowledged that message, and returns the ack data given for it (the
\* receiver answers with the data of the request, which differs from sender to
\* sender); a msgSend of another type returns True from the emit, without
\* waiting for the receiver.
C39_RequestReply ==
    [][ \A w \in Senders :
          Returns(w)
          => IF IsReq(snd[w].msg_type)
             THEN /\ snd[w].pc = "get"
                  /\ Acknowledged(snd[w].buf_id[1])
                  /\ snd'[w].ret = snd[w].msg_data
                  /\ snd'[w].ret = SendData(w)
             ELSE /\ snd[w].pc = "emit"
                  /\ snd'[w].ret = "True"
      ]_vars

\* a sender has its reply while the request of the other sender is still
\* waiting for its acknowledgment
C39_Witness ==
    /\ snd["Ana"].pc = "idle" /\ IsReq(snd["Ana"].msg_type)
    /\ snd["Ana"].ret = SendData("Ana")
    /\ snd["Mic"].pc = "wait" /\ req_sem["Mic"] = 0

\* a posted message has returned True before the receiver has handled it
C39_WitnessPosted ==
    /\ snd["Mic"].pc = "idle" /\ snd["Mic"].ret = "True"
    /\ Len(ipc_queue) > 0 /\ g_buf_pool_list[ipc_queue[1]].name = "Mic"

----------------------------------------------------------------------------
(* AudioGen (src/AudioGen.py): the tone generator.  Its messages are       *)
(* handled one at a time in the thread of the event loop, while run()      *)
(* loops in a thread of its own: a handler may act between any two steps   *)
(* of an iteration.  The volume is 0 (silent) or 1 (any amplitude above    *)
(* zero); the timestamp of a peak is Num(1).                               *)

\* what the analyzer, the buffers and the other objects are left with
GenFrame ==
    UNCHANGED <<flagVars, state, cfgVars, sweep_freq, settle_dur, hist_list, noiseVars,
                delayVars, spikeVars, runSweepMeas, sweepVars, pc, snap, localVars,
                timer_expiry, sent, pulse_gen_TS, elapsed, stopped, budget, calVars,
                live_ampl, avg_ampl, ana_error, fnVars, bufVars>>

GenModes == {"Single Tone", "Delay Meas"}
PulseFreqs == {1000, 25000}
VolDbs == {C_VOL_MIN_DB, 0 - 12}

\* AudioGen.enable
enable(g, audio_on) == [g EXCEPT !.audio_on = audio_on]

\* AudioGen.genPulse: the frequency, the re-entry from Delay Meas DONE, and
\* in Delay Meas mode the cleared timestamp and the enabled output
Pulsed(g, pulseFreq) ==
    LET f == IF pulseFreq >= C_FREQ_MIN /\ pulseFreq <= C_FREQ_MAX
             THEN [g EXCEPT !.freq = pulseFreq] ELSE g
        m == IF f.mode = "Delay Meas DONE" THEN [f EXCEPT !.mode = "Delay Meas"] ELSE f
    IN  IF m.mode = "Delay Meas"
        THEN enable([m EXCEPT !.delayMeasPeak_TS = None], TRUE)
        ELSE m

\* the message gen_pulse
genPulse(pulseFreq) ==
    /\ gen' = Pulsed(gen, pulseFreq)
    /\ UNCHANGED genrun
    /\ GenFrame

\* the message change_mode (AudioGen.changeMode), sent by the analyzer when a
\* delay measurement begins and, after it, to restore the mode it found
changeMode(newMode) ==
    /\ \/ newMode = "Delay Meas" /\ gen.mode = "Single Tone"
       \/ newMode = "Single Tone" /\ gen.mode = "Delay Meas DONE"
    /\ gen' = [gen EXCEPT !.mode = newMode]
    /\ UNCHANGED genrun
    /\ GenFrame

\* the message change_vol (AudioGen.changeVol) of a level below 0 dB, sent
\* while no delay measurement is under way
changeVol(newVolDB) ==
    /\ gen.mode = "Single Tone"
    /\ gen' = [gen EXCEPT !.vol = IF newVolDB <= C_VOL_MIN_DB THEN 0 ELSE 1]
    /\ UNCHANGED genrun
    /\ GenFrame

\* AudioGen.run, the head of an iteration: end_vol = self.vol; mode = self.mode
run_top ==
    /\ genrun.pc = "top"
    /\ genrun' = [genrun EXCEPT !.pc = "audio", !.end_vol = gen.vol, !.mode = gen.mode]
    /\ UNCHANGED gen
    /\ GenFrame

\* if not self._audio_on: end_vol = 0
run_audio ==
    /\ genrun.pc = "audio"
    /\ genrun' = [genrun EXCEPT !.pc = "branch",
                                !.end_vol = IF ~gen.audio_on THEN 0 ELSE @]
    /\ UNCHANGED gen
    /\ GenFrame

FullyStopped == gen.currVol = 0 /\ genrun.end_vol = 0

\* nothing is output when fully stopped
run_stopped ==
    /\ genrun.pc = "branch"
    /\ FullyStopped
    /\ genrun' = [genrun EXCEPT !.pc = "top", !.pulse_state = "IDLE"]
    /\ UNCHANGED gen
    /\ GenFrame

\* the states of the delay measurement pulse
run_pulse ==
    /\ genrun.pc = "branch"
    /\ ~FullyStopped
    /\ IF genrun.mode = "Delay Meas"
       THEN CASE genrun.pulse_state = "IDLE" ->
                    /\ genrun' = [genrun EXCEPT !.pc = "write", !.end_vol = 0,
                                                !.pulse_state = "RAMP_QUIET"]
                    /\ UNCHANGED gen
              [] genrun.pulse_state = "RAMP_QUIET" ->
                    /\ genrun' = [genrun EXCEPT !.pc = "write",
                                                !.pulse_state = "PULSE_RAMP_UP"]
                    /\ UNCHANGED gen
              [] genrun.pulse_state = "PULSE_RAMP_UP" ->
                    /\ genrun' = [genrun EXCEPT !.pc = "write", !.end_vol = 0,
                                                !.pulse_state = "PULSE_DONE"]
                    /\ UNCHANGED gen
              [] genrun.pulse_state = "PULSE_DONE" ->
                    /\ genrun' = [genrun EXCEPT !.pc = "write", !.end_vol = 0,
                                                !.pulse_state = "IDLE"]
                    /\ gen' = enable([gen EXCEPT !.mode = "Delay Meas DONE"], FALSE)
       ELSE /\ genrun' = [genrun EXCEPT !.pc = "write", !.pulse_state = "IDLE"]
            /\ UNCHANGED gen
    /\ GenFrame

\* the buffer fades from currVol to end_vol and is written to the output
run_write ==
    /\ genrun.pc = "write"
    /\ gen' = [gen EXCEPT !.currVol = genrun.end_vol]
    /\ genrun' = [genrun EXCEPT !.pc = "stamp"]
    /\ GenFrame

\* if pulse_state == "PULSE_DONE": self.delayMeasPeak_TS = out_time_TS
run_stamp ==
    /\ genrun.pc = "stamp"
    /\ gen' = IF genrun.pulse_state = "PULSE_DONE"
              THEN [gen EXCEPT !.delayMeasPeak_TS = Num(1)] ELSE gen
    /\ genrun' = [genrun EXCEPT !.pc = "top"]
    /\ GenFrame

GenLoop == run_top \/ run_audio \/ run_stopped \/ run_pulse \/ run_write \/ run_stamp

GenNext ==
    \/ \E pulseFreq \in PulseFreqs : genPulse(pulseFreq)
    \/ \E newMode \in GenModes : changeMode(newMode)
    \/ \E newVolDB \in VolDbs : changeVol(newVolDB)
    \/ run_top
    \/ run_audio
    \/ run_stopped
    \/ run_pulse
    \/ run_write
    \/ run_stamp

\* run() keeps looping
GenSpec == Init /\ [][GenNext]_vars /\ WF_vars(GenLoop)

\* a step of the handler of gen_pulse
PulseHandled == genrun' = genrun /\ \E pulseFreq \in PulseFreqs : gen' = Pulsed(gen, pulseFreq)

\* a step of run() that sets the peak timestamp
PeakStamped == genrun.pc = "stamp" /\ genrun'.pc = "top" /\ gen'.delayMeasPeak_TS # None
               /\ genrun.pulse_state = "PULSE_DONE"

\* the generator just after a gen_pulse that took effect
PulseRequested ==
    gen.mode = "Delay Meas" /\ gen.audio_on /\ gen.delayMeasPeak_TS = None

\* the generator after a whole pulse
PulseComplete ==
    gen.mode = "Delay Meas DONE" /\ ~gen.audio_on /\ gen.delayMeasPeak_TS # None

\* what gen_pulse changes, and how often a pulse stamps its peak
GenPulseEffect ==
    /\ (PulseHandled /\ gen.mode \in {"Delay Meas", "Delay Meas DONE"})
          => /\ gen'.mode = "Delay Meas"
             /\ gen'.delayMeasPeak_TS = None
             /\ gen'.audio_on
    /\ (PulseHandled /\ gen.mode \notin {"Delay Meas", "Delay Meas DONE"})
          => /\ gen'.mode = gen.mode
             /\ gen'.audio_on = gen.audio_on
             /\ gen'.delayMeasPeak_TS = gen.delayMeasPeak_TS
    /\ PeakStamped => gen.delayMeasPeak_TS = None

\* C40: gen_pulse takes effect only in the modes Delay Meas and Delay Meas DONE,
\* where it clears the peak timestamp and enables the output, and in any other
\* mode it leaves mode, enable flag and peak timestamp alone; a pulse sets the
\* peak timestamp once; and every gen_pulse that took effect is followed by a
\* whole pulse: the peak timestamp set, the mode Delay Meas DONE, the output
\* disabled.
C40_PulseOncePerGenPulse ==
    /\ [][GenPulseEffect]_vars
    /\ PulseRequested ~> PulseComplete

C40_EffectOfGenPulse == [][GenPulseEffect]_vars

----------------------------------------------------------------------------
(* The points of one sweep (run, SWEEP_GEN_TONE and SWEEP_MEAS; analyze,   *)
(* the store of a ready point).  sweep_freq_cnt counts the tones commanded *)
(* in the sweep, sweepCnt the points recorded.                             *)

InStep == sweepCnt = sweep_freq_cnt - (IF runSweepMeas THEN 1 ELSE 0)

\* a step that puts the index of the next point back to 0 (clear_sweep)
IndexReset == sweepCnt > 0 /\ sweepCnt' = 0

SweepToneStates == {"SWEEP_GEN_TONE", "SWEEP_MEAS"}

====
